---- MODULE Spec2Model ----
(***************************************************************************)
(* Model of the SpawningKit spawn orchestrator of Passenger: the Journey   *)
(* step-state machine (Journey.h) and the SmartSpawner preloader protocol  *)
(* (SmartSpawner.h).                                                       *)
(*                                                                         *)
(* Two specifications are defined:                                         *)
(*   JSpec  drives one Journey object with arbitrary mutator calls.        *)
(*   Spec   drives one SmartSpawner with spawn() / cleanup() calls, whose  *)
(*          environment (preloader, child, operating system) is chosen     *)
(*          nondeterministically.                                          *)
(***************************************************************************)
EXTENDS Integers, Sequences, FiniteSets, TLC

----------------------------------------------------------------------------
(* Bounds of the model.                                                    *)

\* Number of mutator calls JSpec applies to one Journey.
MaxJourneyOps == 3

\* Largest value of the monotonic clock (in 10 ms ticks) JSpec lets pass.
MaxClock == 2

\* Number of spawn() / cleanup() calls Spec makes on one SmartSpawner.
MaxCalls == 2
MaxThreads == 2

\* Number of character buffers the caller of the constructor owns.
NumBuffers == 2

\* Number of polls of timedWaitpid that make up its timeout.
MaxPolls == 2

\* Number of spawn() / cleanup() calls KSpec makes on one SmartSpawner.
MaxStopCalls == 4

\* Width in bits of the unsigned integers that hold times, scaled down
\* from the 64 bits of MonotonicTimeUsec and unsigned long long.
TimeBits == 4

\* Largest timeout a session starts with, and largest value of the
\* monotonic clock FSpec lets pass.
MaxTimeout == 3
MaxMonotonic == 6

\* NGROUPS_MAX of <limits.h>, scaled down.
NGROUPS_MAX == 2

----------------------------------------------------------------------------
(* Journey.h: enumerations.                                                *)

SPAWN_DIRECTLY == "SPAWN_DIRECTLY"
START_PRELOADER == "START_PRELOADER"
SPAWN_THROUGH_PRELOADER == "SPAWN_THROUGH_PRELOADER"

JourneyType == {SPAWN_DIRECTLY, START_PRELOADER, SPAWN_THROUGH_PRELOADER}

SPAWNING_KIT_PREPARATION == "SPAWNING_KIT_PREPARATION"
SPAWNING_KIT_FORK_SUBPROCESS == "SPAWNING_KIT_FORK_SUBPROCESS"
SPAWNING_KIT_CONNECT_TO_PRELOADER == "SPAWNING_KIT_CONNECT_TO_PRELOADER"
SPAWNING_KIT_SEND_COMMAND_TO_PRELOADER == "SPAWNING_KIT_SEND_COMMAND_TO_PRELOADER"
SPAWNING_KIT_READ_RESPONSE_FROM_PRELOADER == "SPAWNING_KIT_READ_RESPONSE_FROM_PRELOADER"
SPAWNING_KIT_PARSE_RESPONSE_FROM_PRELOADER == "SPAWNING_KIT_PARSE_RESPONSE_FROM_PRELOADER"
SPAWNING_KIT_PROCESS_RESPONSE_FROM_PRELOADER == "SPAWNING_KIT_PROCESS_RESPONSE_FROM_PRELOADER"
SPAWNING_KIT_HANDSHAKE_PERFORM == "SPAWNING_KIT_HANDSHAKE_PERFORM"
SPAWNING_KIT_FINISH == "SPAWNING_KIT_FINISH"
PRELOADER_PREPARATION == "PRELOADER_PREPARATION"
PRELOADER_FORK_SUBPROCESS == "PRELOADER_FORK_SUBPROCESS"
PRELOADER_SEND_RESPONSE == "PRELOADER_SEND_RESPONSE"
PRELOADER_FINISH == "PRELOADER_FINISH"
SUBPROCESS_BEFORE_FIRST_EXEC == "SUBPROCESS_BEFORE_FIRST_EXEC"
SUBPROCESS_SPAWN_ENV_SETUPPER_BEFORE_SHELL == "SUBPROCESS_SPAWN_ENV_SETUPPER_BEFORE_SHELL"
SUBPROCESS_OS_SHELL == "SUBPROCESS_OS_SHELL"
SUBPROCESS_SPAWN_ENV_SETUPPER_AFTER_SHELL == "SUBPROCESS_SPAWN_ENV_SETUPPER_AFTER_SHELL"
SUBPROCESS_EXEC_WRAPPER == "SUBPROCESS_EXEC_WRAPPER"
SUBPROCESS_WRAPPER_PREPARATION == "SUBPROCESS_WRAPPER_PREPARATION"
SUBPROCESS_APP_LOAD_OR_EXEC == "SUBPROCESS_APP_LOAD_OR_EXEC"
SUBPROCESS_PREPARE_AFTER_FORKING_FROM_PRELOADER == "SUBPROCESS_PREPARE_AFTER_FORKING_FROM_PRELOADER"
SUBPROCESS_LISTEN == "SUBPROCESS_LISTEN"
SUBPROCESS_FINISH == "SUBPROCESS_FINISH"
UNKNOWN_JOURNEY_STEP == "UNKNOWN_JOURNEY_STEP"

\* enum JourneyStep, in declaration order (the key order of the std::map).
JourneyStep ==
    << SPAWNING_KIT_PREPARATION,
       SPAWNING_KIT_FORK_SUBPROCESS,
       SPAWNING_KIT_CONNECT_TO_PRELOADER,
       SPAWNING_KIT_SEND_COMMAND_TO_PRELOADER,
       SPAWNING_KIT_READ_RESPONSE_FROM_PRELOADER,
       SPAWNING_KIT_PARSE_RESPONSE_FROM_PRELOADER,
       SPAWNING_KIT_PROCESS_RESPONSE_FROM_PRELOADER,
       SPAWNING_KIT_HANDSHAKE_PERFORM,
       SPAWNING_KIT_FINISH,
       PRELOADER_PREPARATION,
       PRELOADER_FORK_SUBPROCESS,
       PRELOADER_SEND_RESPONSE,
       PRELOADER_FINISH,
       SUBPROCESS_BEFORE_FIRST_EXEC,
       SUBPROCESS_SPAWN_ENV_SETUPPER_BEFORE_SHELL,
       SUBPROCESS_OS_SHELL,
       SUBPROCESS_SPAWN_ENV_SETUPPER_AFTER_SHELL,
       SUBPROCESS_EXEC_WRAPPER,
       SUBPROCESS_WRAPPER_PREPARATION,
       SUBPROCESS_APP_LOAD_OR_EXEC,
       SUBPROCESS_PREPARE_AFTER_FORKING_FROM_PRELOADER,
       SUBPROCESS_LISTEN,
       SUBPROCESS_FINISH,
       UNKNOWN_JOURNEY_STEP >>

AllSteps == { JourneyStep[i] : i \in 1..Len(JourneyStep) }

\* The integer value of an enumerator (its position in the declaration).
StepOrd(step) == CHOOSE i \in 1..Len(JourneyStep) : JourneyStep[i] = step

STEP_NOT_STARTED == "STEP_NOT_STARTED"
STEP_IN_PROGRESS == "STEP_IN_PROGRESS"
STEP_PERFORMED == "STEP_PERFORMED"
STEP_ERRORED == "STEP_ERRORED"

JourneyStepState == {STEP_NOT_STARTED, STEP_IN_PROGRESS, STEP_PERFORMED, STEP_ERRORED}

----------------------------------------------------------------------------
(* Journey.h: JourneyStepInfo and the Journey class.                       *)

\* JourneyStepInfo(): state STEP_NOT_STARTED, both times 0.
JourneyStepInfo == [state |-> STEP_NOT_STARTED, startTime |-> 0, endTime |-> 0]

\* A population that has the wrapper steps whatever usingWrapper is.
fillInStepsWithWrapperAlways(usingWrapper) ==
    { SPAWNING_KIT_PREPARATION, SPAWNING_KIT_FORK_SUBPROCESS,
      SPAWNING_KIT_HANDSHAKE_PERFORM, SPAWNING_KIT_FINISH,
      SUBPROCESS_BEFORE_FIRST_EXEC, SUBPROCESS_SPAWN_ENV_SETUPPER_BEFORE_SHELL,
      SUBPROCESS_OS_SHELL, SUBPROCESS_SPAWN_ENV_SETUPPER_AFTER_SHELL,
      SUBPROCESS_EXEC_WRAPPER, SUBPROCESS_WRAPPER_PREPARATION,
      SUBPROCESS_APP_LOAD_OR_EXEC, SUBPROCESS_LISTEN, SUBPROCESS_FINISH }

fillInStepsForSpawnDirectlyJourney(usingWrapper) ==
    { SPAWNING_KIT_PREPARATION, SPAWNING_KIT_FORK_SUBPROCESS,
      SPAWNING_KIT_HANDSHAKE_PERFORM, SPAWNING_KIT_FINISH,
      SUBPROCESS_BEFORE_FIRST_EXEC, SUBPROCESS_SPAWN_ENV_SETUPPER_BEFORE_SHELL,
      SUBPROCESS_OS_SHELL, SUBPROCESS_SPAWN_ENV_SETUPPER_AFTER_SHELL,
      SUBPROCESS_APP_LOAD_OR_EXEC, SUBPROCESS_LISTEN, SUBPROCESS_FINISH }
    \cup (IF usingWrapper
          THEN {SUBPROCESS_EXEC_WRAPPER, SUBPROCESS_WRAPPER_PREPARATION}
          ELSE {})

fillInStepsForPreloaderStartJourney(usingWrapper) ==
    { SPAWNING_KIT_PREPARATION, SPAWNING_KIT_FORK_SUBPROCESS,
      SPAWNING_KIT_HANDSHAKE_PERFORM, SPAWNING_KIT_FINISH,
      SUBPROCESS_BEFORE_FIRST_EXEC, SUBPROCESS_SPAWN_ENV_SETUPPER_BEFORE_SHELL,
      SUBPROCESS_OS_SHELL, SUBPROCESS_SPAWN_ENV_SETUPPER_AFTER_SHELL,
      SUBPROCESS_APP_LOAD_OR_EXEC, SUBPROCESS_LISTEN, SUBPROCESS_FINISH }
    \cup (IF usingWrapper
          THEN {SUBPROCESS_EXEC_WRAPPER, SUBPROCESS_WRAPPER_PREPARATION}
          ELSE {})

fillInStepsForSpawnThroughPreloaderJourney ==
    { SPAWNING_KIT_PREPARATION, SPAWNING_KIT_CONNECT_TO_PRELOADER,
      SPAWNING_KIT_SEND_COMMAND_TO_PRELOADER,
      SPAWNING_KIT_READ_RESPONSE_FROM_PRELOADER,
      SPAWNING_KIT_PARSE_RESPONSE_FROM_PRELOADER,
      SPAWNING_KIT_PROCESS_RESPONSE_FROM_PRELOADER,
      SPAWNING_KIT_HANDSHAKE_PERFORM, SPAWNING_KIT_FINISH,
      PRELOADER_PREPARATION, PRELOADER_FORK_SUBPROCESS,
      PRELOADER_SEND_RESPONSE, PRELOADER_FINISH,
      SUBPROCESS_PREPARE_AFTER_FORKING_FROM_PRELOADER,
      SUBPROCESS_LISTEN, SUBPROCESS_FINISH }

\* Journey::Journey(type, usingWrapper): the steps map.
Journey(type, usingWrapper) ==
    LET keys == CASE type = SPAWN_DIRECTLY ->
                        fillInStepsForSpawnDirectlyJourney(usingWrapper)
                  [] type = START_PRELOADER ->
                        fillInStepsForPreloaderStartJourney(usingWrapper)
                  [] type = SPAWN_THROUGH_PRELOADER ->
                        fillInStepsForSpawnThroughPreloaderJourney
    IN  [type |-> type,
         usingWrapper |-> usingWrapper,
         steps |-> [s \in keys |-> JourneyStepInfo]]

hasStep(j, step) == step \in DOMAIN j.steps

\* A lookup that answers for an absent step with a default-constructed info.
getStepInfoDefault(j, step) ==
    [ok |-> TRUE,
     info |-> IF hasStep(j, step) THEN j.steps[step] ELSE JourneyStepInfo]

\* Journey::getStepInfo: the info of the step, or RuntimeException("Invalid
\* step ...") thrown (ok FALSE).
getStepInfo(j, step) ==
    IF ~hasStep(j, step)
    THEN [ok |-> FALSE, info |-> JourneyStepInfo]
    ELSE [ok |-> TRUE, info |-> j.steps[step]]

\* The outcome of a mutator: the journey afterwards, and whether the call
\* returned normally (ok) or threw a RuntimeException.
Returned(j) == [ok |-> TRUE, journey |-> j]
Thrown(j) == [ok |-> FALSE, journey |-> j]

\* A scan from the `from'-th enumerator on, as the map iteration does.
RECURSIVE FirstFailedFrom(_, _)
FirstFailedFrom(j, from) ==
    IF from > Len(JourneyStep)
    THEN UNKNOWN_JOURNEY_STEP
    ELSE IF /\ hasStep(j, JourneyStep[from])
            /\ j.steps[JourneyStep[from]].state = STEP_ERRORED
         THEN JourneyStep[from]
         ELSE FirstFailedFrom(j, from + 1)

\* A scan that keeps going and so answers with the last errored step.
RECURSIVE LastFailedFrom(_, _, _)
LastFailedFrom(j, from, found) ==
    IF from > Len(JourneyStep)
    THEN found
    ELSE IF /\ hasStep(j, JourneyStep[from])
            /\ j.steps[JourneyStep[from]].state = STEP_ERRORED
         THEN LastFailedFrom(j, from + 1, JourneyStep[from])
         ELSE LastFailedFrom(j, from + 1, found)

getFirstFailedStepLast(j) == LastFailedFrom(j, 1, UNKNOWN_JOURNEY_STEP)

getFirstFailedStep(j) == FirstFailedFrom(j, 1)

setStepNotStarted(j, step, force) ==
    IF ~hasStep(j, step) THEN Thrown(j)
    ELSE LET info == j.steps[step] IN
         IF info.state = STEP_NOT_STARTED \/ info.state = STEP_IN_PROGRESS \/ force
         THEN Returned([j EXCEPT !.steps[step].state = STEP_NOT_STARTED,
                                 !.steps[step].startTime = 0])
         ELSE Thrown(j)

setStepInProgress(j, step, force, clock) ==
    IF ~hasStep(j, step) THEN Thrown(j)
    ELSE LET info == j.steps[step] IN
         IF info.state = STEP_IN_PROGRESS
         THEN Returned(j)
         ELSE IF info.state = STEP_NOT_STARTED \/ force
         THEN Returned([j EXCEPT !.steps[step].state = STEP_IN_PROGRESS,
                                 !.steps[step].startTime =
                                     IF info.endTime = 0 THEN clock ELSE @])
         ELSE Thrown(j)

\* The source's condition is (info.state == STEP_IN_PROGRESS || true).
setStepPerformed(j, step, force, clock) ==
    IF ~hasStep(j, step) THEN Thrown(j)
    ELSE LET info == j.steps[step] IN
         IF info.state = STEP_PERFORMED
         THEN Returned(j)
         ELSE IF info.state = STEP_IN_PROGRESS \/ TRUE
         THEN Returned([j EXCEPT !.steps[step].state = STEP_PERFORMED,
                                 !.steps[step].endTime =
                                     IF info.endTime = 0 THEN clock ELSE @])
         ELSE Thrown(j)

\* A setStepErrored that stamps endTime on every successful call.
setStepErroredRestamping(j, step, force, clock) ==
    IF ~hasStep(j, step) THEN Thrown(j)
    ELSE LET info == j.steps[step] IN
         IF info.state = STEP_ERRORED
         THEN Returned(j)
         ELSE IF info.state = STEP_IN_PROGRESS \/ force
         THEN Returned([j EXCEPT !.steps[step].state = STEP_ERRORED,
                                 !.steps[step].endTime = clock])
         ELSE Thrown(j)

setStepErrored(j, step, force, clock) ==
    IF ~hasStep(j, step) THEN Thrown(j)
    ELSE LET info == j.steps[step] IN
         IF info.state = STEP_ERRORED
         THEN Returned(j)
         ELSE IF info.state = STEP_IN_PROGRESS \/ force
         THEN Returned([j EXCEPT !.steps[step].state = STEP_ERRORED,
                                 !.steps[step].endTime =
                                     IF info.endTime = 0 THEN clock ELSE @])
         ELSE Thrown(j)

setStepExecutionDuration(j, step, usecDuration) ==
    IF ~hasStep(j, step) THEN Thrown(j)
    ELSE Returned([j EXCEPT !.steps[step].startTime = 0,
                            !.steps[step].endTime = usecDuration])

----------------------------------------------------------------------------
(* State.                                                                  *)

VARIABLES
    \* --- JSpec: one Journey object driven through its public interface ---
    journey,        \* the Journey
    lastOp,         \* the last mutator call and how it ended
    opCount,        \* mutator calls made so far
    now,            \* SystemTime::getMonotonicUsecWithGranularity, in ticks
    \* --- Spec: SmartSpawner fields ---
    pid,                    \* pid_t pid (-1: no preloader)
    preloaderStdin,         \* FileDescriptor preloaderStdin: TRUE iff open
    socketAddress,          \* string socketAddress
    preloaderAnnotations,   \* StringKeyTable<string> (the set of its keys)
    m_lastUsed,             \* unsigned long long m_lastUsed
    syncher,                \* boost::mutex syncher: "free" or "held"
    \* --- Spec: the operating system ---
    procs,          \* process table: pid -> [state, uid]
    unlinked,       \* socket files removed with unlink()
    \* --- Spec: the call in progress ---
    pc,             \* position of the calling thread
    calls,          \* calls made so far
    callKind,       \* "none", "spawn" or "cleanup": the last call entered
    plan,           \* the stage at which the preloader fails a retried command
    attempts,       \* internalInvokeForkCommand invocations in this call
    restarts,       \* startPreloader invocations of crash recovery in this call
    crashes,        \* stages at which PreloaderCrashed was thrown in this call
    stopFailed,     \* stopPreloader threw in this call
    restartFailed,  \* the startPreloader of crash recovery threw in this call
    startRet,       \* who called startPreloader: "spawn" or "retry"
    startPid,       \* pid forked by internalStartPreloader (its ScopeGuard)
    startSession,   \* the START_PRELOADER HandshakeSession
    session,        \* the SPAWN_THROUGH_PRELOADER HandshakeSession
    response,       \* the parsed fork command response
    forkResult,     \* ForkResult returned by invokeForkCommand
    spawnedUid,     \* uid_t spawnedUid of handleForkCommandResponseSuccess
    handshakePid,   \* pid HandshakePerform ran on in spawn() (-1: none)
    outcome,        \* how the last call ended
    exception,      \* the exception the last call threw
    result,         \* the Result the last spawn() returned
    \* --- TSpec: threads calling into one SmartSpawner ---
    threads,        \* thread -> its call: position, kind, locals
    preloaders,     \* pids forked as preloaders so far
    journeyLog,     \* ids of the calls whose journeys moved, in order
    destroyed,      \* "alive", "destroying" or "destroyed"
    lastRead,       \* the last value getPreloaderPid() returned
    \* --- USpec: one run of the spawn environment setupper ---
    setupperPc,     \* position in spawnEnvSetupperMain
    context,        \* Context: mode, step, args
    locals,         \* shouldTrySwitchUser, userInfo, shell of main's try block
    workDirWritable,\* whether files can be created under the work directory
    recorded,       \* the record* calls made so far, in order
    environ,        \* the process environment: name -> value or "unset"
    effects,        \* the system and library calls that succeeded, in order
    ending,         \* how the process ended: exec, exit(code) or a signal
    \* --- OSpec: the Options a SmartSpawner is constructed from ---
    memory,         \* address -> the text stored there, or "freed"
    callerOptions,  \* the caller's Options: field -> address of its text
    options,        \* SmartSpawner::options: field -> address of its text
    persisted,      \* field -> the text copyAndPersist() read for it
    constructed,    \* "no", "yes", or "thrown" by the constructor
    \* --- LSpec: the two mutexes of a SmartSpawner ---
    simpleFieldSyncher, \* the thread that holds the mutex, or 0
    \* --- KSpec: stopPreloader() one system call at a time ---
    elapsed,        \* polls the Timer of timedWaitpid has seen pass
    \* --- FSpec: the timeout of a session over its FIFO opens ---
    timeoutUsec,    \* HandshakeSession::timeoutUsec
    monotonic,      \* SystemTime::getMonotonicUsec()
    fifoCall        \* the openFifoWithTimeout call: position, times, outcome

journeyVars == << journey, lastOp, opCount, now >>
spawnerVars == << pid, preloaderStdin, socketAddress, preloaderAnnotations,
                  m_lastUsed, syncher >>
osVars == << procs, unlinked >>
callVars == << pc, calls, callKind, plan, attempts, restarts, crashes,
               stopFailed, restartFailed, startRet, startPid, startSession,
               session, response, forkResult, spawnedUid, handshakePid,
               outcome,
               exception, result >>
threadVars == << threads, preloaders, journeyLog, destroyed, lastRead >>
setupperVars == << setupperPc, context, locals, workDirWritable, recorded,
                   environ, effects, ending >>
optionsVars == << memory, callerOptions, options, persisted, constructed >>
lockVars == << simpleFieldSyncher >>
stopVars == << elapsed >>
timeoutVars == << timeoutUsec, monotonic, fifoCall >>
vars == << journeyVars, spawnerVars, osVars, callVars, threadVars,
           setupperVars, optionsVars, lockVars, stopVars, timeoutVars >>

----------------------------------------------------------------------------
(* Values the variables of the specification not running hold.             *)

NoOp == [op |-> "none", step |-> UNKNOWN_JOURNEY_STEP, force |-> FALSE,
         before |-> "none", ok |-> TRUE]
NoSession == [journey |-> Journey(SPAWN_THROUGH_PRELOADER, TRUE), uid |-> -1,
              sockets |-> << >>]
NoException == [type |-> "none", category |-> "none", summary |-> "",
                journey |-> Journey(SPAWN_THROUGH_PRELOADER, TRUE)]
NoResponse == [result |-> "none", pid |-> -1]
NoForkResult == [pid |-> -1, stdinFd |-> FALSE, stdoutAndErrFd |-> FALSE]
NoPlan == "none"

Threads == 1..MaxThreads
NoCall == [pc |-> "idle", kind |-> "none", id |-> 0, guardPid |-> -1,
           crashes |-> 0, session |-> FALSE]
NoRead == [read |-> FALSE, value |-> -1]

ThreadsIdle ==
    /\ threads = [t \in Threads |-> NoCall]
    /\ preloaders = {}
    /\ journeyLog = << >>
    /\ destroyed = "alive"
    /\ lastRead = NoRead

BEFORE_MODE == "BEFORE_MODE"
AFTER_MODE == "AFTER_MODE"
NoArgs == [parsed |-> FALSE, user |-> "none", group |-> "none",
           loadShellEnvvars |-> FALSE, startsUsingWrapper |-> FALSE,
           appEnv |-> "", environmentVariables |-> {}]
\* The environment variables the model follows.
EnvNames == {"IN_PASSENGER", "PASSENGER_APP_ENV"}
NoContext == [mode |-> BEFORE_MODE, step |-> UNKNOWN_JOURNEY_STEP,
              args |-> NoArgs]
NoLocals == [shouldTrySwitchUser |-> FALSE, userInfo |-> "NULL", shell |-> << >>,
             groups |-> << >>, gidset |-> << >>,
             appRoot |-> << >>, statted |-> << >>, parent |-> << >>]
Running == [how |-> "running", code |-> -1]

\* The fields of Options the caller sets (OptionsTest.cpp sets these two).
Fields == << "appRoot", "processTitle" >>
FieldNames == { Fields[i] : i \in 1..Len(Fields) }

\* Addresses: 0 is the empty string, 1..NumBuffers are the caller's
\* buffers, the ones above are the storage of the persisted copy.
Buffers == 1..NumBuffers
StorageOf(field) ==
    NumBuffers + (CHOOSE i \in 1..Len(Fields) : Fields[i] = field)
Storage == { StorageOf(f) : f \in FieldNames }

\* The texts a buffer holds: the two the test writes, and what they become
\* when the test overwrites their first character.
Texts == { "appRoot", "processTitle", "xppRoot", "xrocessTitle" }

\* No openFifoWithTimeout call has been made.
NoFifo == [pc |-> "none", startTime |-> 0, endTime |-> 0, timeout |-> 0,
           outcome |-> "none"]

OptionsIdle ==
    /\ memory = [a \in Buffers \cup Storage |->
                    IF a \in Storage THEN ""
                    ELSE IF a % 2 = 1 THEN "appRoot" ELSE "processTitle"]
    /\ callerOptions = [f \in FieldNames |-> 0]
    /\ options = [f \in FieldNames |-> 0]
    /\ persisted = [f \in FieldNames |-> ""]
    /\ constructed = "no"

SetupperIdle ==
    /\ setupperPc = "main"
    /\ context = NoContext
    /\ locals = NoLocals
    /\ workDirWritable = TRUE
    /\ recorded = << >>
    /\ environ = [name \in EnvNames |-> "unset"]
    /\ effects = << >>
    /\ ending = Running

JourneyIdle ==
    /\ journey = Journey(SPAWN_THROUGH_PRELOADER, TRUE)
    /\ lastOp = NoOp
    /\ opCount = 0
    /\ now = 1

SpawnerIdle ==
    /\ pid = -1
    /\ preloaderStdin = FALSE
    /\ socketAddress = ""
    /\ preloaderAnnotations = {}
    /\ m_lastUsed = 0
    /\ syncher = "free"
    /\ procs = << >>
    /\ unlinked = {}
    /\ pc = "idle"
    /\ calls = 0
    /\ callKind = "none"
    /\ plan = NoPlan
    /\ attempts = 0
    /\ restarts = 0
    /\ crashes = << >>
    /\ stopFailed = FALSE
    /\ restartFailed = FALSE
    /\ startRet = "spawn"
    /\ startPid = -1
    /\ startSession = NoSession
    /\ session = NoSession
    /\ response = NoResponse
    /\ forkResult = NoForkResult
    /\ spawnedUid = -1
    /\ handshakePid = -1
    /\ outcome = "none"
    /\ exception = NoException
    /\ result = << >>
    /\ ThreadsIdle
    /\ SetupperIdle
    /\ OptionsIdle
    /\ simpleFieldSyncher = 0
    /\ elapsed = 0
    /\ timeoutUsec = 0
    /\ monotonic = 0
    /\ fifoCall = NoFifo

----------------------------------------------------------------------------
(* JSpec: a Journey of any type under any sequence of mutator calls.       *)

\* The steps the mutator calls of JSpec name: the first step of every
\* journey, and a step that only some journey types have.  The mutators
\* treat every step alike.
DrivenSteps ==
    { SPAWNING_KIT_PREPARATION, SPAWNING_KIT_FORK_SUBPROCESS }

StateBefore(j, step) ==
    IF hasStep(j, step) THEN j.steps[step].state ELSE "absent"

\* One mutator call `op' with outcome r: the journey and the call record.
JCall(op, step, force, r) ==
    /\ opCount < MaxJourneyOps
    /\ journey' = r.journey
    /\ lastOp' = [op |-> op, step |-> step, force |-> force,
                  before |-> StateBefore(journey, step), ok |-> r.ok]
    /\ opCount' = opCount + 1
    /\ UNCHANGED << now, spawnerVars, osVars, callVars, threadVars,
                    setupperVars, optionsVars, lockVars, stopVars, timeoutVars >>

JInit ==
    /\ \E type \in JourneyType, usingWrapper \in BOOLEAN :
           journey = Journey(type, usingWrapper)
    /\ lastOp = NoOp
    /\ opCount = 0
    /\ now = 1
    /\ SpawnerIdle

JSetStepNotStarted ==
    \E step \in DrivenSteps, force \in BOOLEAN :
        JCall("setStepNotStarted", step, force,
              setStepNotStarted(journey, step, force))

JSetStepInProgress ==
    \E step \in DrivenSteps, force \in BOOLEAN :
        JCall("setStepInProgress", step, force,
              setStepInProgress(journey, step, force, now))

JSetStepPerformed ==
    \E step \in DrivenSteps, force \in BOOLEAN :
        JCall("setStepPerformed", step, force,
              setStepPerformed(journey, step, force, now))

JSetStepErrored ==
    \E step \in DrivenSteps, force \in BOOLEAN :
        JCall("setStepErrored", step, force,
              setStepErrored(journey, step, force, now))

JSetStepExecutionDuration ==
    \E step \in DrivenSteps, usecDuration \in {0, MaxClock} :
        JCall("setStepExecutionDuration", step, FALSE,
              setStepExecutionDuration(journey, step, usecDuration))

\* The monotonic clock advances by one granule between two calls.
JTick ==
    /\ opCount < MaxJourneyOps
    /\ now < MaxClock
    /\ now' = now + 1
    /\ UNCHANGED << journey, lastOp, opCount, spawnerVars, osVars, callVars,
                    threadVars, setupperVars, optionsVars, lockVars, stopVars, timeoutVars >>

JNext ==
    \/ JSetStepNotStarted
    \/ JSetStepInProgress
    \/ JSetStepPerformed
    \/ JSetStepErrored
    \/ JSetStepExecutionDuration
    \/ JTick

JSpec == JInit /\ [][JNext]_vars

----------------------------------------------------------------------------
(* Spec: the environment of a SmartSpawner.                                *)

\* User ids: the target user of the application, and root.
Uids == {0, 501}

\* What the preloader does to one fork command: serve it, or fail the
\* orchestrator's connect, write or read with a system or I/O error.
Stages == {"none", "connect", "send", "read"}
CrashTypes == {"SystemException", "IOException"}

\* The uid of the user the application is configured to run as, which
\* HandshakePrepare resolves into session.uid; one spawner serves one
\* application.
AppUid == CHOOSE uid \in Uids : uid # 0

PreloaderSocketUnix ==
    [address |-> "unix:/tmp/psg.sock", protocol |-> "preloader",
     concurrency |-> 1, acceptHttpRequests |-> FALSE]
PreloaderSocketTcp ==
    [address |-> "tcp://127.0.0.1:5000", protocol |-> "preloader",
     concurrency |-> 1, acceptHttpRequests |-> FALSE]
AppSocket ==
    [address |-> "unix:/tmp/app.sock", protocol |-> "http",
     concurrency |-> 0, acceptHttpRequests |-> TRUE]
AppSocketTcp ==
    [address |-> "tcp://127.0.0.1:3000", protocol |-> "http",
     concurrency |-> 0, acceptHttpRequests |-> TRUE]

\* response/properties.json of a preloader: its command socket comes with
\* protocol "preloader"; the last result names no such socket.
PreloaderResults ==
    { << PreloaderSocketUnix >>, << AppSocket, PreloaderSocketTcp >>,
      << AppSocket >> }

\* response/properties.json of an application process.
ChildResults == { << AppSocket >>, << AppSocket, AppSocketTcp >> }

SAT_UNIX == "SAT_UNIX"
SAT_TCP == "SAT_TCP"
SAT_UNKNOWN == "SAT_UNKNOWN"

\* getSocketAddressType on the addresses of the model: by the prefix.
getSocketAddressType(address) ==
    CASE address \in {"unix:/tmp/psg.sock", "unix:/tmp/app.sock"} -> SAT_UNIX
      [] address \in {"tcp://127.0.0.1:5000", "tcp://127.0.0.1:3000"} -> SAT_TCP
      [] OTHER -> SAT_UNKNOWN

\* parseUnixSocketAddress: the address without its "unix:" prefix.
parseUnixSocketAddress(address) ==
    CASE address = "unix:/tmp/psg.sock" -> "/tmp/psg.sock"
      [] address = "unix:/tmp/app.sock" -> "/tmp/app.sock"

\* A process just forked, and the next free pid.
Process(uid) == [state |-> "running", uid |-> uid, sigkill |-> FALSE]
NextPid == Cardinality(DOMAIN procs) + 1
Forked(uid) == [p \in DOMAIN procs \cup {NextPid} |->
                    IF p = NextPid THEN Process(uid) ELSE procs[p]]
isRunning(p) == p \in DOMAIN procs /\ procs[p].state = "running"

\* A guard that leaves the process alone.
leaveProcessAlone(t, p) == t

\* nonInterruptableKillAndWaitpid(p) on the process table t.
nonInterruptableKillAndWaitpid(t, p) ==
    IF p \in DOMAIN t /\ t[p].state # "reaped"
    THEN [t EXCEPT ![p].state = "reaped", ![p].sigkill = TRUE]
    ELSE t

----------------------------------------------------------------------------
(* Exceptions.                                                             *)

INTERNAL_ERROR == "INTERNAL_ERROR"
OPERATING_SYSTEM_ERROR == "OPERATING_SYSTEM_ERROR"
IO_ERROR == "IO_ERROR"
TIMEOUT_ERROR == "TIMEOUT_ERROR"
UNKNOWN_ERROR_CATEGORY == "UNKNOWN_ERROR_CATEGORY"

NoJourney == [type |-> "none", usingWrapper |-> FALSE,
              steps |-> [s \in {} |-> JourneyStepInfo]]

\* An exception that is no SpawnException: its class and its what().
StdException(type, what) ==
    [type |-> type, category |-> "none", summary |-> what, journey |-> NoJourney]

\* The RuntimeException the Journey mutators throw.
JourneyError == StdException("RuntimeException",
                             "Unable to change state for journey step")

\* The category a SpawnException built from another exception gets.
inferErrorCategoryFromAnotherException(type) ==
    CASE type = "SystemException" -> OPERATING_SYSTEM_ERROR
      [] type = "IOException" -> IO_ERROR
      [] type = "TimeoutException" -> TIMEOUT_ERROR
      [] OTHER -> INTERNAL_ERROR

\* SpawnException(category, journey, config), with the summary set later.
SpawnException(category, summary, j) ==
    [type |-> "SpawnException", category |-> category, summary |-> summary,
     journey |-> j]

\* SpawnException(originalException, journey, config).
SpawnExceptionFrom(e, j) ==
    SpawnException(inferErrorCategoryFromAnotherException(e.type), e.summary, j)

----------------------------------------------------------------------------
(* A run of Journey mutator calls, stopping at the first that throws.      *)

Apply(j, call) ==
    CASE call[1] = "NotStarted" -> setStepNotStarted(j, call[2], call[3])
      [] call[1] = "InProgress" -> setStepInProgress(j, call[2], call[3], now)
      [] call[1] = "Performed" -> setStepPerformed(j, call[2], call[3], now)
      [] call[1] = "Errored" -> setStepErrored(j, call[2], call[3], now)

RECURSIVE Run(_, _)
Run(j, callSeq) ==
    IF callSeq = << >>
    THEN Returned(j)
    ELSE LET r == Apply(j, Head(callSeq))
         IN  IF r.ok THEN Run(r.journey, Tail(callSeq)) ELSE r

----------------------------------------------------------------------------
(* SmartSpawner.h: helpers.                                                *)

fieldVars == << pid, preloaderStdin, socketAddress, preloaderAnnotations >>

\* A spawner that believes it always has a preloader.
preloaderStartedAlways == TRUE

preloaderStarted == pid # -1

\* The first socket with protocol "preloader", or the empty string.
RECURSIVE findPreloaderCommandSocketAddress(_)
findPreloaderCommandSocketAddress(sockets) ==
    IF sockets = << >>
    THEN ""
    ELSE IF Head(sockets).protocol = "preloader"
         THEN Head(sockets).address
         ELSE findPreloaderCommandSocketAddress(Tail(sockets))

\* spawn(), the handlers of its try block: a SpawnException is rethrown, any
\* other exception marks the preparation step errored and is wrapped.
SpawnCatch(e, j) ==
    IF e.type = "SpawnException"
    THEN [exception |-> e, journey |-> j]
    ELSE LET r == setStepErrored(j, SPAWNING_KIT_PREPARATION, FALSE, now)
         IN  IF r.ok
             THEN [exception |-> SpawnExceptionFrom(e, r.journey),
                   journey |-> r.journey]
             ELSE [exception |-> JourneyError, journey |-> r.journey]

\* startPreloader(), the handlers of its try block.
StartCatch(e, j) ==
    IF e.type = "SpawnException"
    THEN [exception |-> e, journey |-> j]
    ELSE LET r == setStepErrored(j, SPAWNING_KIT_PREPARATION, FALSE, now)
         IN  IF r.ok
             THEN [exception |-> SpawnExceptionFrom(e, r.journey),
                   journey |-> r.journey]
             ELSE [exception |-> JourneyError, journey |-> r.journey]

\* An exception leaves spawn() or cleanup(): the lock guards unlock.
ThrowOutside(e) ==
    /\ exception' = e
    /\ outcome' = "exception"
    /\ pc' = "idle"
    /\ syncher' = "free"

\* An exception e is raised inside the try block of spawn().
ThrowInTry(e, j) ==
    LET c == SpawnCatch(e, j)
    IN  /\ session' = [session EXCEPT !.journey = c.journey]
        /\ ThrowOutside(c.exception)

\* An exception e is raised inside startPreloader, after its session was made.
StartFail(e, j) ==
    LET c == StartCatch(e, j)
    IN  /\ startSession' = [startSession EXCEPT !.journey = c.journey]
        /\ IF startRet = "spawn"
           THEN /\ ThrowOutside(c.exception)
                /\ UNCHANGED << session, restartFailed >>
           ELSE /\ restartFailed' = TRUE
                /\ ThrowInTry(c.exception, session.journey)

\* HandshakePerform fails: it leaves its step errored in the journey.
HandshakePerformFailed(j) ==
    setStepErrored(j, SPAWNING_KIT_HANDSHAKE_PERFORM, TRUE, now).journey

\* stopPreloader().  `exited': the preloader exits within the 5 s wait;
\* `throws': the Timer of timedWaitpid cannot read the clock and throws.
stopPreloader(exited, throws) ==
    IF ~preloaderStarted
    THEN UNCHANGED << fieldVars, procs, unlinked >>
    ELSE IF throws
    THEN /\ preloaderStdin' = FALSE
         /\ UNCHANGED << pid, socketAddress, preloaderAnnotations, procs,
                         unlinked >>
    ELSE /\ procs' = IF isRunning(pid)
                     THEN [procs EXCEPT ![pid].state = "reaped",
                                        ![pid].sigkill = ~exited]
                     ELSE procs
         /\ unlinked' = IF getSocketAddressType(socketAddress) = SAT_UNIX
                        THEN unlinked \cup {parseUnixSocketAddress(socketAddress)}
                        ELSE unlinked
         /\ pid' = -1
         /\ socketAddress' = ""
         /\ preloaderStdin' = FALSE
         /\ preloaderAnnotations' = {}

stopPreloaderThrows(throws) == preloaderStarted /\ throws

----------------------------------------------------------------------------
(* SmartSpawner.h: spawn(), cleanup(), startPreloader().                   *)

\* spawn() up to the decision whether to start the preloader.
SpawnEnter ==
    /\ pc = "idle"
    /\ calls < MaxCalls
    /\ calls' = calls + 1
    /\ callKind' = "spawn"
    /\ plan' = NoPlan
    /\ m_lastUsed' = calls + 1
    /\ syncher' = "held"
    /\ attempts' = 0
    /\ restarts' = 0
    /\ crashes' = << >>
    /\ stopFailed' = FALSE
    /\ restartFailed' = FALSE
    /\ startPid' = -1
    /\ startSession' = NoSession
    /\ session' = NoSession
    /\ response' = NoResponse
    /\ forkResult' = NoForkResult
    /\ spawnedUid' = -1
    /\ handshakePid' = -1
    /\ outcome' = "running"
    /\ exception' = NoException
    /\ result' = << >>
    /\ startRet' = "spawn"
    /\ pc' = IF ~preloaderStarted THEN "startPreloader" ELSE "prepare"
    /\ UNCHANGED << journeyVars, setupperVars, optionsVars, lockVars, stopVars, timeoutVars, threadVars, fieldVars, osVars >>

\* cleanup().
Cleanup ==
    /\ pc = "idle"
    /\ calls < MaxCalls
    /\ calls' = calls + 1
    /\ callKind' = "cleanup"
    /\ m_lastUsed' = calls + 1
    /\ \E exited \in BOOLEAN, throws \in BOOLEAN :
        /\ stopPreloader(exited, throws)
        /\ stopFailed' = stopPreloaderThrows(throws)
        /\ IF stopPreloaderThrows(throws)
           THEN /\ outcome' = "exception"
                /\ exception' = StdException("SystemException",
                                             "Unable to retrieve the system time")
           ELSE /\ outcome' = "ok"
                /\ exception' = NoException
    /\ UNCHANGED << journeyVars, setupperVars, optionsVars, lockVars, stopVars, timeoutVars, threadVars, syncher, pc, plan, attempts, restarts, crashes,
                    restartFailed, startRet, startPid, startSession, session,
                    response, forkResult, spawnedUid, handshakePid, result >>

\* startPreloader() up to and including the fork.
StartPreloaderFork ==
    /\ pc = "startPreloader"
    /\ \E how \in {"ok", "config", "prepare", "fork"} :
        LET opened == Run(Journey(START_PRELOADER, TRUE),
                          << <<"InProgress", SPAWNING_KIT_PREPARATION, FALSE>> >>)
            prepared == Run(opened.journey,
                          << <<"Performed", SPAWNING_KIT_PREPARATION, FALSE>>,
                             <<"InProgress", SPAWNING_KIT_FORK_SUBPROCESS, FALSE>>,
                             <<"InProgress", SUBPROCESS_BEFORE_FIRST_EXEC, FALSE>> >>)
            forkFailed == Run(prepared.journey,
                          << <<"Errored", SPAWNING_KIT_FORK_SUBPROCESS, FALSE>> >>)
            forked == Run(prepared.journey,
                          << <<"Performed", SPAWNING_KIT_FORK_SUBPROCESS, FALSE>>,
                             <<"InProgress", SPAWNING_KIT_HANDSHAKE_PERFORM, FALSE>> >>)
            configJourney == setStepErrored(Journey(SPAWN_THROUGH_PRELOADER, TRUE),
                                 SPAWNING_KIT_PREPARATION, TRUE, now).journey
        IN  CASE how = "config" ->
                   /\ StartFail(SpawnExceptionFrom(
                          StdException("RuntimeException", "Invalid options"),
                          configJourney), startSession.journey)
                   /\ UNCHANGED << procs, startPid >>
              [] how = "prepare" ->
                   /\ StartFail(StdException("SystemException",
                                             "Cannot create a pipe"),
                                opened.journey)
                   /\ UNCHANGED << procs, startPid >>
              [] how = "fork" ->
                   /\ IF forkFailed.ok
                      THEN StartFail(SpawnException(OPERATING_SYSTEM_ERROR,
                                         "Cannot fork a new process: ",
                                         forkFailed.journey),
                                     forkFailed.journey)
                      ELSE StartFail(JourneyError, forkFailed.journey)
                   /\ UNCHANGED << procs, startPid >>
              [] how = "ok" ->
                   IF forked.ok
                   THEN /\ procs' = Forked(0)
                        /\ startPid' = NextPid
                        /\ startSession' = [NoSession EXCEPT
                                                !.journey = forked.journey]
                        /\ pc' = "startHandshake"
                        /\ UNCHANGED << syncher, session, restartFailed,
                                        outcome, exception >>
                   ELSE /\ StartFail(JourneyError, forked.journey)
                        /\ UNCHANGED << procs, startPid >>
    /\ UNCHANGED << journeyVars, setupperVars, optionsVars, lockVars, stopVars, timeoutVars, threadVars, fieldVars, m_lastUsed, unlinked, calls,
                    callKind, plan, attempts, restarts, crashes, stopFailed,
                    startRet, response, forkResult, spawnedUid, handshakePid, result >>

\* startPreloader(): the handshake with the forked preloader fails.
StartPreloaderHandshakeFails ==
    /\ pc = "startHandshake"
    /\ \E category \in {INTERNAL_ERROR, TIMEOUT_ERROR} :
        LET j == HandshakePerformFailed(startSession.journey)
        IN  StartFail(SpawnException(category,
                          "The preloader did not start", j), j)
    /\ procs' = nonInterruptableKillAndWaitpid(procs, startPid)
    /\ UNCHANGED << journeyVars, setupperVars, optionsVars, lockVars, stopVars, timeoutVars, threadVars, fieldVars, m_lastUsed, unlinked, calls,
                    callKind, plan, attempts, restarts, crashes, stopFailed,
                    startRet, startPid, response, forkResult, spawnedUid, handshakePid,
                    result >>

\* startPreloader(): the handshake succeeds, the fields are assigned and the
\* annotations are loaded.
StartPreloaderHandshake ==
    /\ pc = "startHandshake"
    /\ \E sockets \in PreloaderResults, annotations \in {"ok", "exception"} :
        /\ pid' = startPid
        /\ socketAddress' = findPreloaderCommandSocketAddress(sockets)
        /\ preloaderStdin' = TRUE
        /\ IF annotations = "ok"
           THEN /\ preloaderAnnotations' = {"ruby_version"}
                /\ startSession' = [startSession EXCEPT !.sockets = sockets]
                /\ pc' = "startWatcher"
                /\ UNCHANGED << procs, syncher, session, restartFailed,
                                outcome, exception >>
           ELSE /\ UNCHANGED preloaderAnnotations
                /\ procs' = nonInterruptableKillAndWaitpid(procs, startPid)
                /\ StartFail(StdException("SystemException",
                                          "Cannot read annotation file"),
                             startSession.journey)
    /\ UNCHANGED << journeyVars, setupperVars, optionsVars, lockVars, stopVars, timeoutVars, threadVars, m_lastUsed, unlinked, calls,
                    callKind, plan, attempts, restarts, crashes, stopFailed,
                    startRet, startPid, response, forkResult, spawnedUid, handshakePid,
                    result >>

\* startPreloader(): the pipe watcher is started and the guard cleared.
StartPreloaderWatch ==
    /\ pc = "startWatcher"
    /\ \E started \in BOOLEAN :
        LET r == Run(startSession.journey,
                     << <<"Performed", SPAWNING_KIT_HANDSHAKE_PERFORM, FALSE>> >>)
        IN  IF started /\ r.ok
            THEN /\ startSession' = [startSession EXCEPT !.journey = r.journey]
                 /\ startPid' = -1
                 /\ pc' = IF startRet = "spawn" THEN "prepare" ELSE "connect"
                 /\ UNCHANGED << procs, syncher, session, restartFailed,
                                 outcome, exception >>
            ELSE /\ procs' = nonInterruptableKillAndWaitpid(procs, startPid)
                 /\ StartFail(IF started THEN JourneyError
                              ELSE StdException("thread_resource_error",
                                                "Cannot create a thread"),
                              startSession.journey)
                 /\ UNCHANGED startPid
    /\ UNCHANGED << journeyVars, setupperVars, optionsVars, lockVars, stopVars, timeoutVars, threadVars, fieldVars, m_lastUsed, unlinked, calls,
                    callKind, plan, attempts, restarts, crashes, stopFailed,
                    startRet, response, forkResult, spawnedUid, handshakePid, result >>

----------------------------------------------------------------------------
(* SmartSpawner.h: the fork command protocol.                              *)

\* JSON documents a preloader may answer with: an object is a function from
\* member names to typed values; anything else is no object.
JsonString(v) == [type |-> "string", value |-> v]
JsonInt(v) == [type |-> "int", value |-> v]
JsonObject(members) == [isObject |-> TRUE, members |-> members]
JsonArray == [isObject |-> FALSE, members |-> << >>]

isMember(doc, name) == name \in DOMAIN doc.members

\* The lines a preloader may answer with when it reports child pid p.
ResponseLines(p) ==
    { [parses |-> FALSE, doc |-> JsonArray],
      [parses |-> TRUE, doc |-> JsonArray],
      [parses |-> TRUE, doc |-> JsonObject([result |-> JsonString("ok"),
                                            pid |-> JsonInt(p)])],
      [parses |-> TRUE, doc |-> JsonObject([result |-> JsonString("ok")])],
      [parses |-> TRUE, doc |-> JsonObject([result |-> JsonString("ok"),
                                            pid |-> JsonString("12345")])],
      [parses |-> TRUE, doc |-> JsonObject([result |-> JsonString("error"),
                                            message |-> JsonString("boom")])],
      [parses |-> TRUE, doc |-> JsonObject([result |-> JsonString("error")])],
      [parses |-> TRUE, doc |-> JsonObject([result |-> JsonString("maybe")])],
      [parses |-> TRUE, doc |-> JsonObject([result |-> JsonInt(1)])],
      [parses |-> TRUE, doc |-> JsonObject([pid |-> JsonInt(p)])] }

\* A validation that looks at the result member alone.
validateResultOnly(doc) ==
    /\ doc.isObject
    /\ isMember(doc, "result")
    /\ doc.members["result"].type = "string"

\* validateForkCommandResponse(doc).
validateForkCommandResponse(doc) ==
    IF ~doc.isObject THEN FALSE
    ELSE IF ~isMember(doc, "result") \/ doc.members["result"].type # "string"
    THEN FALSE
    ELSE IF doc.members["result"].value = "ok"
    THEN IF ~isMember(doc, "pid") \/ doc.members["pid"].type # "int"
         THEN FALSE
         ELSE TRUE
    ELSE IF doc.members["result"].value = "error"
    THEN IF ~isMember(doc, "message") \/ doc.members["message"].type # "string"
         THEN FALSE
         ELSE TRUE
    ELSE FALSE

\* The line names a child process the preloader forked.
ReportsChild(line) ==
    /\ line.parses
    /\ line.doc.isObject
    /\ isMember(line.doc, "pid")
    /\ line.doc.members["pid"].type = "int"

\* spawn(): the configuration is assembled, the session made and prepared.
Prepare ==
    /\ pc = "prepare"
    /\ \E how \in {"ok", "config", "prepare"} :
        LET opened == Run(Journey(SPAWN_THROUGH_PRELOADER, TRUE),
                          << <<"InProgress", SPAWNING_KIT_PREPARATION, FALSE>> >>)
            configJourney == setStepErrored(Journey(SPAWN_THROUGH_PRELOADER, TRUE),
                                 SPAWNING_KIT_PREPARATION, TRUE, now).journey
        IN  CASE how = "config" ->
                   /\ ThrowOutside(SpawnExceptionFrom(
                          StdException("RuntimeException", "Invalid options"),
                          configJourney))
                   /\ UNCHANGED session
              [] how = "prepare" ->
                   ThrowInTry(StdException("SystemException",
                                           "Cannot create the work directory"),
                              opened.journey)
              [] how = "ok" ->
                   /\ session' = [journey |-> opened.journey, uid |-> AppUid,
                                  sockets |-> << >>]
                   /\ pc' = "connect"
                   /\ UNCHANGED << syncher, outcome, exception >>
    /\ UNCHANGED << journeyVars, setupperVars, optionsVars, lockVars, stopVars, timeoutVars, threadVars, fieldVars, m_lastUsed, osVars, calls,
                    callKind, plan, attempts, restarts, crashes, stopFailed,
                    restartFailed, startRet, startPid, startSession, response,
                    forkResult, spawnedUid, handshakePid, result >>

\* Whether the fork command of the given attempt can fail at the given
\* stage with a system or I/O error: a preloader that is no longer running
\* refuses the connection, a running one fails the first command at any
\* stage and the retried one where `plan' says.
Crashes(stage, attempt) ==
    IF ~isRunning(pid) THEN stage = "connect"
    ELSE IF attempt = 1 THEN TRUE
    ELSE plan = stage

\* Whether the fork command of the given attempt can get past the stage.
Passes(stage, attempt) ==
    /\ isRunning(pid)
    /\ attempt = 1 \/ plan # stage

\* internalInvokeForkCommand: a system or I/O error becomes PreloaderCrashed.
PreloaderCrashed(stage, j) ==
    /\ crashes' = Append(crashes, stage)
    /\ IF crashes = << >>
       THEN \E p \in Stages : plan' = p
       ELSE UNCHANGED plan
    /\ session' = [session EXCEPT !.journey = j]
    /\ pc' = "crashed"
    /\ UNCHANGED << syncher, outcome, exception >>

\* invokeForkCommand calls internalInvokeForkCommand, which connects.
ConnectToPreloader ==
    /\ pc = "connect"
    /\ attempts' = attempts + 1
    /\ LET r == Run(session.journey,
                 << <<"InProgress", SPAWNING_KIT_CONNECT_TO_PRELOADER, FALSE>> >>)
       IN  IF ~r.ok
           THEN ThrowInTry(JourneyError, r.journey) /\ UNCHANGED << crashes, plan >>
           ELSE \/ /\ getSocketAddressType(socketAddress) = SAT_UNKNOWN
                   /\ ThrowInTry(StdException("ArgumentException",
                                              "Unknown address type"),
                                 r.journey)
                   /\ UNCHANGED << crashes, plan >>
                \/ /\ getSocketAddressType(socketAddress) # SAT_UNKNOWN
                   /\ Crashes("connect", attempts + 1)
                   /\ PreloaderCrashed("connect", r.journey)
                \/ /\ getSocketAddressType(socketAddress) # SAT_UNKNOWN
                   /\ Passes("connect", attempts + 1)
                   /\ session' = [session EXCEPT !.journey = r.journey]
                   /\ pc' = "send"
                   /\ UNCHANGED << crashes, plan, syncher, outcome, exception >>
    /\ UNCHANGED << journeyVars, setupperVars, optionsVars, lockVars, stopVars, timeoutVars, threadVars, fieldVars, m_lastUsed, osVars, calls,
                    callKind, restarts, stopFailed, restartFailed,
                    startRet, startPid, startSession, response, forkResult, spawnedUid,
                    handshakePid, result >>

\* internalInvokeForkCommand: sendForkCommand.
SendForkCommand ==
    /\ pc = "send"
    /\ LET r == Run(session.journey,
                 << <<"Performed", SPAWNING_KIT_CONNECT_TO_PRELOADER, FALSE>>,
                    <<"InProgress", SPAWNING_KIT_SEND_COMMAND_TO_PRELOADER, FALSE>> >>)
       IN  IF ~r.ok
           THEN ThrowInTry(JourneyError, r.journey) /\ UNCHANGED << crashes, plan >>
           ELSE \/ /\ Crashes("send", attempts)
                   /\ PreloaderCrashed("send", r.journey)
                \/ /\ Passes("send", attempts)
                   /\ ThrowInTry(StdException("TimeoutException",
                                              "Cannot write enough data within the specified timeout"),
                                 r.journey)
                   /\ UNCHANGED << crashes, plan >>
                \/ /\ Passes("send", attempts)
                   /\ session' = [session EXCEPT !.journey = r.journey]
                   /\ pc' = "read"
                   /\ UNCHANGED << crashes, plan, syncher, outcome, exception >>
    /\ UNCHANGED << journeyVars, setupperVars, optionsVars, lockVars, stopVars, timeoutVars, threadVars, fieldVars, m_lastUsed, osVars, calls,
                    callKind, attempts, restarts, stopFailed,
                    restartFailed, startRet, startPid, startSession, response,
                    forkResult, spawnedUid, handshakePid, result >>

\* An oversized response reported as an I/O error.
ResponseTooLongAsIoError(j) ==
    SpawnException(IO_ERROR,
        "The preloader process sent a response that exceeds the maximum size limit.",
        j)

\* readForkCommandResponse, the handler of the SecurityException readLine
\* throws for a line of more than 10240 bytes: the exception it throws
\* for the journey j, whose read step it has set errored.
ResponseTooLong(j) ==
    SpawnException(INTERNAL_ERROR,
        "The preloader process sent a response that exceeds the maximum size limit.",
        j)

\* internalInvokeForkCommand: readForkCommandResponse.
ReadForkCommandResponse ==
    /\ pc = "read"
    /\ LET r == Run(session.journey,
                 << <<"Performed", SPAWNING_KIT_SEND_COMMAND_TO_PRELOADER, FALSE>>,
                    <<"InProgress", SPAWNING_KIT_READ_RESPONSE_FROM_PRELOADER, FALSE>> >>)
           tooLong == Run(r.journey,
                 << <<"Errored", SPAWNING_KIT_READ_RESPONSE_FROM_PRELOADER, FALSE>> >>)
       IN  IF ~r.ok
           THEN /\ ThrowInTry(JourneyError, r.journey)
                /\ UNCHANGED << crashes, plan, response, procs >>
           ELSE \/ /\ Crashes("read", attempts)
                   /\ PreloaderCrashed("read", r.journey)
                   /\ UNCHANGED << response, procs >>
                \/ /\ Passes("read", attempts)
                   /\ ThrowInTry(StdException("TimeoutException",
                                              "Timeout reading the response"),
                                 r.journey)
                   /\ UNCHANGED << crashes, plan, response, procs >>
                \/ /\ Passes("read", attempts)
                   /\ IF tooLong.ok
                      THEN ThrowInTry(ResponseTooLong(tooLong.journey),
                                      tooLong.journey)
                      ELSE ThrowInTry(JourneyError, tooLong.journey)
                   /\ UNCHANGED << crashes, plan, response, procs >>
                \/ /\ Passes("read", attempts)
                   /\ \E line \in ResponseLines(NextPid) :
                        /\ response' = line
                        /\ IF ReportsChild(line)
                           THEN \E uid \in Uids : procs' = Forked(uid)
                           ELSE UNCHANGED procs
                   /\ session' = [session EXCEPT !.journey = r.journey]
                   /\ pc' = "parse"
                   /\ UNCHANGED << crashes, plan, syncher, outcome, exception >>
    /\ UNCHANGED << journeyVars, setupperVars, optionsVars, lockVars, stopVars, timeoutVars, threadVars, fieldVars, m_lastUsed, unlinked, calls,
                    callKind, attempts, restarts, stopFailed,
                    restartFailed, startRet, startPid, startSession,
                    forkResult, spawnedUid, handshakePid, result >>

\* internalInvokeForkCommand: parseForkCommandResponse.
ParseForkCommandResponse ==
    /\ pc = "parse"
    /\ LET r == Run(session.journey,
                 << <<"Performed", SPAWNING_KIT_READ_RESPONSE_FROM_PRELOADER, FALSE>>,
                    <<"InProgress", SPAWNING_KIT_PARSE_RESPONSE_FROM_PRELOADER, FALSE>> >>)
           bad == Run(r.journey,
                 << <<"Errored", SPAWNING_KIT_PARSE_RESPONSE_FROM_PRELOADER, FALSE>>,
                    <<"Errored", SPAWNING_KIT_PARSE_RESPONSE_FROM_PRELOADER, FALSE>> >>)
       IN  IF ~r.ok
           THEN ThrowInTry(JourneyError, r.journey)
           ELSE IF ~response.parses
           THEN IF bad.ok
                THEN ThrowInTry(SpawnException(INTERNAL_ERROR,
                         "The preloader process sent an unparseable response: ",
                         bad.journey), bad.journey)
                ELSE ThrowInTry(JourneyError, bad.journey)
           ELSE IF ~validateForkCommandResponse(response.doc)
           THEN IF bad.ok
                THEN ThrowInTry(SpawnException(INTERNAL_ERROR,
                         "The preloader process sent a response that does not match the expected structure: ",
                         bad.journey), bad.journey)
                ELSE ThrowInTry(JourneyError, bad.journey)
           ELSE /\ session' = [session EXCEPT !.journey = r.journey]
                /\ pc' = "process"
                /\ UNCHANGED << syncher, outcome, exception >>
    /\ UNCHANGED << journeyVars, setupperVars, optionsVars, lockVars, stopVars, timeoutVars, threadVars, fieldVars, m_lastUsed, osVars, calls,
                    callKind, plan, attempts, restarts, crashes, stopFailed,
                    restartFailed, startRet, startPid, startSession, response,
                    forkResult, spawnedUid, handshakePid, result >>

\* ProcessMetricsCollector().collect and osProcessExists, as getProcessUid
\* uses them: what the query of process p's uid yields when `ps' behaves as
\* given.
getProcessUid(ps, p) ==
    CASE ps = "ParseException" -> [kind |-> "parse", uid |-> -1]
      [] ps = "SystemException" -> [kind |-> "system", uid |-> -1]
      [] ps = "noinfo" ->
            [kind |-> IF isRunning(p) THEN "noinfo" ELSE "exited", uid |-> -1]
      [] ps = "ok" ->
            IF isRunning(p)
            THEN [kind |-> "uid", uid |-> procs[p].uid]
            ELSE [kind |-> "exited", uid |-> -1]

\* The exception getProcessUid throws for a failed query.
getProcessUidError(kind, j) ==
    CASE kind = "parse" ->
            SpawnException(INTERNAL_ERROR,
                "Unable to query the UID of spawned application process: error parsing 'ps' output", j)
      [] kind = "system" ->
            SpawnException(OPERATING_SYSTEM_ERROR,
                "Unable to query the UID of spawned application process; error capturing 'ps' output: ", j)
      [] kind = "noinfo" ->
            SpawnException(INTERNAL_ERROR,
                "Unable to query the UID of spawned application process: 'ps' did not report information about this process", j)
      [] kind = "exited" ->
            SpawnException(INTERNAL_ERROR,
                "The application process spawned from the preloader seems to have exited prematurely", j)

\* A UID check that accepts every process.
UidMismatchNever(actualUid, expectedUid) == FALSE

\* handleForkCommandResponseSuccess: spawnedUid != session.uid.
UidMismatch(actualUid, expectedUid) == actualUid # expectedUid

\* internalInvokeForkCommand: handleForkCommandResponse.
HandleForkCommandResponse ==
    /\ pc = "process"
    /\ LET r == Run(session.journey,
                 << <<"Performed", SPAWNING_KIT_PARSE_RESPONSE_FROM_PRELOADER, FALSE>>,
                    <<"InProgress", SPAWNING_KIT_PROCESS_RESPONSE_FROM_PRELOADER, FALSE>> >>)
           \* the step set errored where the exception is made, and again
           \* by the catch (...) of internalInvokeForkCommand
           errored == Run(r.journey,
                 << <<"Errored", SPAWNING_KIT_PROCESS_RESPONSE_FROM_PRELOADER, FALSE>>,
                    <<"Errored", SPAWNING_KIT_PROCESS_RESPONSE_FROM_PRELOADER, FALSE>> >>)
           doc == response.doc
       IN  IF ~r.ok
           THEN /\ ThrowInTry(JourneyError, r.journey)
                /\ UNCHANGED << procs, forkResult, spawnedUid >>
           ELSE IF doc.members["result"].value # "ok"
           THEN \* handleForkCommandResponseError
                /\ IF errored.ok
                   THEN ThrowInTry(SpawnException(INTERNAL_ERROR,
                            "An error occured while starting the web application: ",
                            errored.journey), errored.journey)
                   ELSE ThrowInTry(JourneyError, errored.journey)
                /\ UNCHANGED << procs, forkResult, spawnedUid >>
           ELSE \* handleForkCommandResponseSuccess
                LET spawnedPid == doc.members["pid"].value
                    killed == nonInterruptableKillAndWaitpid(procs, spawnedPid)
                IN  \E stdinFifo \in BOOLEAN, stdoutFifo \in BOOLEAN,
                       fifo \in {"ok", "SystemException", "TimeoutException"},
                       ps \in {"ok", "ParseException", "SystemException", "noinfo"} :
                      LET q == getProcessUid(ps, spawnedPid)
                      IN  IF (stdinFifo \/ stdoutFifo) /\ fifo # "ok"
                          THEN \* openFifoWithTimeout throws
                               /\ IF errored.ok
                                  THEN ThrowInTry(StdException(fifo, "Cannot open FIFO"),
                                                  errored.journey)
                                  ELSE ThrowInTry(JourneyError, errored.journey)
                               /\ procs' = killed
                               /\ UNCHANGED << forkResult, spawnedUid >>
                          ELSE IF q.kind # "uid"
                          THEN /\ IF errored.ok
                                  THEN ThrowInTry(getProcessUidError(q.kind,
                                           errored.journey), errored.journey)
                                  ELSE ThrowInTry(JourneyError, errored.journey)
                               /\ procs' = killed
                               /\ spawnedUid' = q.uid
                               /\ UNCHANGED forkResult
                          ELSE IF UidMismatch(q.uid, session.uid)
                          THEN /\ IF errored.ok
                                  THEN ThrowInTry(SpawnException(INTERNAL_ERROR,
                                           "The process that the preloader said it spawned has another UID than expected",
                                           errored.journey), errored.journey)
                                  ELSE ThrowInTry(JourneyError, errored.journey)
                               /\ procs' = killed
                               /\ spawnedUid' = q.uid
                               /\ UNCHANGED forkResult
                          ELSE \* stdoutAndErrCapturer->stop() on a null pointer
                               \* when there is no stdout_and_err FIFO: the
                               \* process dies, or the call goes through
                               \/ /\ ~stdoutFifo
                                  /\ pc' = "aborted"
                                  /\ outcome' = "aborted"
                                  /\ spawnedUid' = q.uid
                                  /\ UNCHANGED << procs, forkResult, session,
                                                  syncher, exception >>
                               \/ /\ forkResult' = [pid |-> spawnedPid,
                                                    stdinFd |-> stdinFifo,
                                                    stdoutAndErrFd |-> stdoutFifo]
                                  /\ spawnedUid' = q.uid
                                  /\ session' = [session EXCEPT !.journey = r.journey]
                                  /\ pc' = "handshake"
                                  /\ UNCHANGED << procs, syncher, outcome,
                                                  exception >>
    /\ UNCHANGED << journeyVars, setupperVars, optionsVars, lockVars, stopVars, timeoutVars, threadVars, fieldVars, m_lastUsed, unlinked, calls,
                    callKind, plan, attempts, restarts, crashes, stopFailed,
                    restartFailed, startRet, startPid, startSession, response,
                    handshakePid, result >>

\* The Result spawn() returns: its local `result', default constructed and
\* never assigned.
Result(sess) == << >>

\* spawn(): HandshakePerform on the forked process succeeds.
HandshakeWithChild ==
    /\ pc = "handshake"
    /\ handshakePid' = forkResult.pid
    /\ \E sockets \in ChildResults :
        LET r == Run(session.journey,
                   << <<"Performed", SPAWNING_KIT_HANDSHAKE_PERFORM, FALSE>> >>)
            sess == [session EXCEPT !.journey = r.journey, !.sockets = sockets]
        IN  IF r.ok
            THEN /\ session' = sess
                 /\ result' = Result(sess)
                 /\ outcome' = "ok"
                 /\ pc' = "idle"
                 /\ syncher' = "free"
                 /\ UNCHANGED exception
            ELSE /\ ThrowInTry(JourneyError, r.journey)
                 /\ UNCHANGED result
    /\ UNCHANGED << journeyVars, setupperVars, optionsVars, lockVars, stopVars, timeoutVars, threadVars, fieldVars, m_lastUsed, osVars, calls,
                    callKind, plan, attempts, restarts, crashes, stopFailed,
                    restartFailed, startRet, startPid, startSession, response,
                    forkResult, spawnedUid >>

\* spawn(): HandshakePerform on the forked process fails; the guard kills it.
HandshakeWithChildFails ==
    /\ pc = "handshake"
    /\ handshakePid' = forkResult.pid
    /\ \E category \in {INTERNAL_ERROR, TIMEOUT_ERROR} :
        LET j == HandshakePerformFailed(session.journey)
        IN  ThrowInTry(SpawnException(category,
                           "The application process did not start", j), j)
    /\ procs' = nonInterruptableKillAndWaitpid(procs, forkResult.pid)
    /\ UNCHANGED << journeyVars, setupperVars, optionsVars, lockVars, stopVars, timeoutVars, threadVars, fieldVars, m_lastUsed, unlinked, calls,
                    callKind, plan, attempts, restarts, crashes, stopFailed,
                    restartFailed, startRet, startPid, startSession, response,
                    forkResult, spawnedUid, result >>

\* A handler that takes every crash for the first one.
AnyAttempt == TRUE

\* invokeForkCommand: the outer handler catches the PreloaderCrashed of the
\* first internalInvokeForkCommand call, the inner one that of the second.
FirstAttempt == attempts = 1

\* invokeForkCommand: the first crash. The steps are reset, the preloader is
\* stopped and started again.
CrashRecovery ==
    /\ pc = "crashed"
    /\ FirstAttempt
    /\ LET resets == Run(session.journey,
                 << <<"NotStarted", SPAWNING_KIT_CONNECT_TO_PRELOADER, FALSE>>,
                    <<"NotStarted", SPAWNING_KIT_SEND_COMMAND_TO_PRELOADER, FALSE>>,
                    <<"NotStarted", SPAWNING_KIT_READ_RESPONSE_FROM_PRELOADER, FALSE>> >>)
           errored == Run(resets.journey,
                 << <<"Errored", SPAWNING_KIT_PREPARATION, FALSE>> >>)
       IN  IF ~resets.ok
           THEN /\ ThrowInTry(JourneyError, resets.journey)
                /\ UNCHANGED << fieldVars, osVars, stopFailed, restarts,
                                startRet >>
           ELSE \E exited \in BOOLEAN, throws \in BOOLEAN :
                  /\ stopPreloader(exited, throws)
                  /\ stopFailed' = stopPreloaderThrows(throws)
                  /\ IF stopPreloaderThrows(throws)
                     THEN /\ IF errored.ok
                             THEN ThrowInTry(SpawnException(
                                      inferErrorCategoryFromAnotherException("SystemException"),
                                      "Error stopping a crashed preloader: ",
                                      errored.journey), errored.journey)
                             ELSE ThrowInTry(JourneyError, errored.journey)
                          /\ UNCHANGED << restarts, startRet >>
                     ELSE /\ session' = [session EXCEPT !.journey = resets.journey]
                          /\ restarts' = restarts + 1
                          /\ startRet' = "retry"
                          /\ pc' = "startPreloader"
                          /\ UNCHANGED << syncher, outcome, exception >>
    /\ UNCHANGED << journeyVars, setupperVars, optionsVars, lockVars, stopVars, timeoutVars, threadVars, m_lastUsed, calls, callKind, plan, attempts,
                    crashes, restartFailed, startPid, startSession, response,
                    forkResult, spawnedUid, handshakePid, result >>

\* invokeForkCommand: the second crash. The preloader is stopped and the
\* crash is thrown as a SpawnException.
SecondCrash ==
    /\ pc = "crashed"
    /\ ~FirstAttempt
    /\ LET stopErrored == Run(session.journey,
                 << <<"Errored", SPAWNING_KIT_PREPARATION, FALSE>>,
                    <<"NotStarted", SPAWNING_KIT_CONNECT_TO_PRELOADER, FALSE>>,
                    <<"NotStarted", SPAWNING_KIT_SEND_COMMAND_TO_PRELOADER, FALSE>>,
                    <<"NotStarted", SPAWNING_KIT_READ_RESPONSE_FROM_PRELOADER, FALSE>> >>)
           errored == Run(session.journey,
                 << <<"Errored", SPAWNING_KIT_PREPARATION, FALSE>> >>)
       IN  \E exited \in BOOLEAN, throws \in BOOLEAN, type \in CrashTypes :
              /\ stopPreloader(exited, throws)
              /\ stopFailed' = stopPreloaderThrows(throws)
              /\ IF stopPreloaderThrows(throws)
                 THEN IF stopErrored.ok
                      THEN ThrowInTry(SpawnException(
                               inferErrorCategoryFromAnotherException("SystemException"),
                               "Error stopping a crashed preloader: ",
                               stopErrored.journey), stopErrored.journey)
                      ELSE ThrowInTry(JourneyError, stopErrored.journey)
                 ELSE IF errored.ok
                      THEN ThrowInTry(SpawnException(
                               inferErrorCategoryFromAnotherException(type),
                               "An application preloader crashed: ",
                               errored.journey), errored.journey)
                      ELSE ThrowInTry(JourneyError, errored.journey)
    /\ UNCHANGED << journeyVars, setupperVars, optionsVars, lockVars, stopVars, timeoutVars, threadVars, m_lastUsed, calls, callKind, plan, attempts,
                    restarts, crashes, restartFailed, startRet, startPid,
                    startSession, response, forkResult, spawnedUid, handshakePid, result >>

----------------------------------------------------------------------------
(* Spec: a SmartSpawner under spawn() and cleanup() calls.                 *)

Init ==
    /\ JourneyIdle
    /\ SpawnerIdle

Next ==
    \/ SpawnEnter
    \/ Cleanup
    \/ StartPreloaderFork
    \/ StartPreloaderHandshakeFails
    \/ StartPreloaderHandshake
    \/ StartPreloaderWatch
    \/ Prepare
    \/ ConnectToPreloader
    \/ SendForkCommand
    \/ ReadForkCommandResponse
    \/ ParseForkCommandResponse
    \/ HandleForkCommandResponse
    \/ HandshakeWithChild
    \/ HandshakeWithChildFails
    \/ CrashRecovery
    \/ SecondCrash

Spec == Init /\ [][Next]_vars

----------------------------------------------------------------------------
(* Properties.                                                             *)

SpawnReturned == pc = "idle" /\ callKind = "spawn"
SpawnSucceeded == SpawnReturned /\ outcome = "ok"
SpawnFailed == SpawnReturned /\ outcome = "exception"

ForkCommandSteps ==
    { SPAWNING_KIT_CONNECT_TO_PRELOADER,
      SPAWNING_KIT_SEND_COMMAND_TO_PRELOADER,
      SPAWNING_KIT_READ_RESPONSE_FROM_PRELOADER }

ErroredSteps(j) ==
    { step \in DOMAIN j.steps : j.steps[step].state = STEP_ERRORED }

\* C1: whenever the coarse lock is free, the preloader pid is set if and
\* only if the socket address is non-empty, if and only if the preloader's
\* stdin is open.
PreloaderHandleInvariant ==
    syncher = "free" =>
        /\ (pid # -1) <=> (socketAddress # "")
        /\ (socketAddress # "") <=> preloaderStdin

\* C2: a successful spawn() returns a Result whose sockets are the sockets
\* the child reported in the handshake.
ResultNamesChildSockets ==
    SpawnSucceeded => result = session.sockets

\* C3: after a first fork command failed with a system or I/O error at any
\* stage, the three fork command steps are reset to NotStarted and the
\* preloader is stopped and started again; a spawn() that succeeds after such
\* a failure has the three steps Performed and no step Errored.
CrashRecoveryRetries ==
    /\ (callKind = "spawn" /\ crashes # << >> /\ pc # "crashed" /\ ~stopFailed)
          => restarts = 1
    /\ (startRet = "retry" /\ pc \in {"startPreloader", "startHandshake",
                                       "startWatcher"})
          => \A step \in ForkCommandSteps :
                 session.journey.steps[step].state = STEP_NOT_STARTED
    /\ (SpawnSucceeded /\ crashes # << >>)
          => /\ \A step \in ForkCommandSteps :
                    session.journey.steps[step].state = STEP_PERFORMED
             /\ ErroredSteps(session.journey) = {}

\* C4: within one spawn() the fork command is sent at most twice and the
\* preloader is restarted for crash recovery at most once.
OneShotRetry ==
    /\ attempts <= 2
    /\ restarts <= 1
    /\ Len(crashes) <= 2

\* A spawn() in which the retried fork command crashed too has returned.
SecondCrashHandled ==
    /\ SpawnFailed
    /\ Len(crashes) = 2
    /\ attempts = 2
    /\ restarts = 1

\* C5: the journey of the SpawnException of a spawn() that failed after the
\* preloader crashed has each fork command step Performed or Errored.
CrashedStepsSettled ==
    (SpawnFailed /\ crashes # << >> /\ exception.type = "SpawnException")
        => \A step \in ForkCommandSteps :
               exception.journey.steps[step].state
                   \in {STEP_PERFORMED, STEP_ERRORED}

\* C6: when the first fork command crashed and the preloader fails the
\* retried one too, and stopping and restarting the preloader did not fail,
\* spawn() fails with a SpawnException "An application preloader crashed: "
\* whose journey has the preparation step Errored as its first failed step,
\* and no preloader is left.
DoubleCrashReported ==
    (SpawnReturned /\ crashes # << >> /\ plan # "none"
       /\ ~stopFailed /\ ~restartFailed
       /\ (Len(crashes) = 2 \/ restarts = 0))
        => /\ outcome = "exception"
           /\ exception.type = "SpawnException"
           /\ exception.summary = "An application preloader crashed: "
           /\ exception.journey.steps[SPAWNING_KIT_PREPARATION].state
                  = STEP_ERRORED
           /\ getFirstFailedStep(exception.journey) = SPAWNING_KIT_PREPARATION
           /\ pid = -1

\* C7: every exception that leaves spawn() is a SpawnException.
OnlySpawnExceptionEscapes ==
    SpawnFailed => exception.type = "SpawnException"

\* C8: the handshake runs on, and spawn() succeeds for, a reported process
\* only if its uid is the session's; when the uid queried differs, spawn()
\* fails with an INTERNAL_ERROR SpawnException whose journey has
\* ProcessResponseFromPreloader Errored, and the process is killed and reaped.
UidVerified ==
    /\ handshakePid # -1 => procs[handshakePid].uid = session.uid
    /\ SpawnSucceeded =>
          /\ handshakePid # -1
          /\ spawnedUid = session.uid
    /\ (callKind = "spawn" /\ pc \in {"idle", "handshake"}
          /\ spawnedUid # -1 /\ spawnedUid # session.uid)
          => /\ SpawnFailed
             /\ exception.type = "SpawnException"
             /\ exception.category = INTERNAL_ERROR
             /\ exception.journey.steps[
                    SPAWNING_KIT_PROCESS_RESPONSE_FROM_PRELOADER].state
                    = STEP_ERRORED
             /\ procs[response.doc.members["pid"].value].state = "reaped"
             /\ procs[response.doc.members["pid"].value].sigkill

\* A spawn() has failed on a process whose uid is not the session's.
UidMismatchHandled ==
    /\ SpawnFailed
    /\ spawnedUid # -1
    /\ spawnedUid # session.uid

\* The state a mutator moves a step to.
TargetState(op) ==
    CASE op = "setStepNotStarted" -> STEP_NOT_STARTED
      [] op = "setStepInProgress" -> STEP_IN_PROGRESS
      [] op = "setStepPerformed" -> STEP_PERFORMED
      [] op = "setStepErrored" -> STEP_ERRORED

AllowedTransitions ==
    { <<STEP_NOT_STARTED, STEP_IN_PROGRESS>>,
      <<STEP_IN_PROGRESS, STEP_PERFORMED>>,
      <<STEP_IN_PROGRESS, STEP_ERRORED>>,
      <<STEP_NOT_STARTED, STEP_NOT_STARTED>>,
      <<STEP_IN_PROGRESS, STEP_NOT_STARTED>> }

\* C9: a mutator call without force on a present step succeeds only for an
\* allowed transition, and moves the step; any other call fails and leaves
\* the step's state as it was.
TransitionRule ==
    (lastOp.op \in {"setStepNotStarted", "setStepInProgress",
                    "setStepPerformed", "setStepErrored"}
       /\ ~lastOp.force /\ lastOp.before # "absent")
        => IF <<lastOp.before, TargetState(lastOp.op)>> \in AllowedTransitions
           THEN lastOp.ok
                => journey.steps[lastOp.step].state = TargetState(lastOp.op)
           ELSE /\ ~lastOp.ok
                /\ journey.steps[lastOp.step].state = lastOp.before

\* C10: getFirstFailedStep returns the Errored step that comes first in the
\* declaration order of JourneyStep, and UNKNOWN_JOURNEY_STEP if and only if
\* no step is Errored.
FirstFailedStepIsFirstErrored ==
    LET errored == ErroredSteps(journey)
        first == getFirstFailedStep(journey)
    IN  IF errored = {}
        THEN first = UNKNOWN_JOURNEY_STEP
        ELSE /\ first \in errored
             /\ \A step \in errored : StepOrd(first) <= StepOrd(step)

\* A journey with two Errored steps.
TwoStepsErrored ==
    Cardinality(ErroredSteps(journey)) >= 2

----------------------------------------------------------------------------
(* Properties of the step population.                                      *)

OrchestratorSteps ==
    { SPAWNING_KIT_PREPARATION, SPAWNING_KIT_FORK_SUBPROCESS,
      SPAWNING_KIT_CONNECT_TO_PRELOADER,
      SPAWNING_KIT_SEND_COMMAND_TO_PRELOADER,
      SPAWNING_KIT_READ_RESPONSE_FROM_PRELOADER,
      SPAWNING_KIT_PARSE_RESPONSE_FROM_PRELOADER,
      SPAWNING_KIT_PROCESS_RESPONSE_FROM_PRELOADER,
      SPAWNING_KIT_HANDSHAKE_PERFORM, SPAWNING_KIT_FINISH }

PreloaderSteps ==
    { PRELOADER_PREPARATION, PRELOADER_FORK_SUBPROCESS,
      PRELOADER_SEND_RESPONSE, PRELOADER_FINISH }

WrapperSteps == { SUBPROCESS_EXEC_WRAPPER, SUBPROCESS_WRAPPER_PREPARATION }

SubprocessSteps ==
    (AllSteps \ (OrchestratorSteps \cup PreloaderSteps))
        \ {UNKNOWN_JOURNEY_STEP}

\* The population of a journey without a preloader, read as "all subprocess
\* steps, the wrapper steps conditional".
StatedDirectSteps(usingWrapper) ==
    { SPAWNING_KIT_PREPARATION, SPAWNING_KIT_FORK_SUBPROCESS,
      SPAWNING_KIT_HANDSHAKE_PERFORM, SPAWNING_KIT_FINISH }
    \cup (SubprocessSteps \ (IF usingWrapper THEN {} ELSE WrapperSteps))

\* The population of a journey through a preloader.
StatedThroughPreloaderSteps ==
    (OrchestratorSteps \ {SPAWNING_KIT_FORK_SUBPROCESS})
    \cup PreloaderSteps
    \cup { SUBPROCESS_PREPARE_AFTER_FORKING_FROM_PRELOADER, SUBPROCESS_LISTEN,
           SUBPROCESS_FINISH }

\* A new journey has every step NotStarted with no times.
StartsNotStarted ==
    opCount = 0 => \A step \in DOMAIN journey.steps :
                       journey.steps[step] = JourneyStepInfo

\* C11 as stated: the steps of a journey are, at creation and ever after,
\* the stated population of its type, a journey without a preloader having
\* all subprocess steps (the wrapper steps iff usingWrapper).
StepSetAsStated ==
    /\ DOMAIN journey.steps =
           IF journey.type = SPAWN_THROUGH_PRELOADER
           THEN StatedThroughPreloaderSteps
           ELSE StatedDirectSteps(journey.usingWrapper)
    /\ StartsNotStarted

\* C11: the steps of a journey are, at creation and ever after, the stated
\* population of its type, where a SpawnDirectly or StartPreloader journey
\* has all subprocess steps except PrepareAfterForkingFromPreloader (the
\* wrapper steps iff usingWrapper); every step starts NotStarted.
StepSetFixed ==
    /\ DOMAIN journey.steps =
           IF journey.type = SPAWN_THROUGH_PRELOADER
           THEN StatedThroughPreloaderSteps
           ELSE StatedDirectSteps(journey.usingWrapper)
                    \ {SUBPROCESS_PREPARE_AFTER_FORKING_FROM_PRELOADER}
    /\ StartsNotStarted

\* A SpawnDirectly journey without wrapper on which mutators have acted.
DirectJourneyMutated ==
    /\ journey.type = SPAWN_DIRECTLY
    /\ ~journey.usingWrapper
    /\ opCount = MaxJourneyOps
    /\ lastOp.ok
    /\ \E step \in DOMAIN journey.steps :
           journey.steps[step].state # STEP_NOT_STARTED

----------------------------------------------------------------------------
(* Properties of absent steps.                                             *)

AbsentSteps(j) == (AllSteps \ {UNKNOWN_JOURNEY_STEP}) \ DOMAIN j.steps

\* C12: for every step outside the journey's population getStepInfo and the
\* five mutators, forced or not, fail and leave the journey as it is, and
\* hasStep is false for exactly those steps.
AbsentStepsRejected ==
    /\ \A step \in AllSteps \ {UNKNOWN_JOURNEY_STEP} :
           hasStep(journey, step) <=> step \notin AbsentSteps(journey)
    /\ \A step \in AbsentSteps(journey) :
           /\ ~getStepInfo(journey, step).ok
           /\ \A force \in BOOLEAN :
                  /\ setStepNotStarted(journey, step, force) = Thrown(journey)
                  /\ setStepInProgress(journey, step, force, now)
                         = Thrown(journey)
                  /\ setStepPerformed(journey, step, force, now)
                         = Thrown(journey)
                  /\ setStepErrored(journey, step, force, now)
                         = Thrown(journey)
           /\ \A usecDuration \in 0..MaxClock :
                  setStepExecutionDuration(journey, step, usecDuration)
                      = Thrown(journey)
    /\ \A step \in DOMAIN journey.steps :
           /\ getStepInfo(journey, step).ok
           /\ getStepInfo(journey, step).info = journey.steps[step]
    /\ lastOp.before = "absent" => ~lastOp.ok

\* A forced mutator call on an absent step has failed on a journey that
\* earlier calls have changed.
AbsentStepCalled ==
    /\ lastOp.before = "absent"
    /\ lastOp.force
    /\ ~lastOp.ok
    /\ AbsentSteps(journey) # {}
    /\ \E step \in DOMAIN journey.steps :
           journey.steps[step].state # STEP_NOT_STARTED

----------------------------------------------------------------------------
(* Properties of the timestamps.                                           *)

\* The outcomes of the four state mutators on a step of the journey now.
\* The properties below apply them to the steps JSpec drives: every other
\* step is as the constructor left it.
MutatorOutcomes(step) ==
    UNION { { [op |-> "setStepNotStarted",
               r |-> setStepNotStarted(journey, step, force)],
              [op |-> "setStepInProgress",
               r |-> setStepInProgress(journey, step, force, now)],
              [op |-> "setStepPerformed",
               r |-> setStepPerformed(journey, step, force, now)],
              [op |-> "setStepErrored",
               r |-> setStepErrored(journey, step, force, now)] } :
            force \in BOOLEAN }

\* C13 as stated: startTime is set when a step first enters InProgress and
\* endTime when it first enters Performed or Errored, and no later call of
\* the four state mutators, forced or not, overwrites a time that is set.
TimestampsNeverOverwritten ==
    \A step \in DrivenSteps \cap DOMAIN journey.steps :
      \A c \in MutatorOutcomes(step) :
        LET before == journey.steps[step]
            after == c.r.journey.steps[step]
        IN  /\ before.startTime # 0 => after.startTime = before.startTime
            /\ before.endTime # 0 => after.endTime = before.endTime
            /\ (before.startTime = 0 /\ before.state # STEP_IN_PROGRESS
                  /\ after.state = STEP_IN_PROGRESS)
                 => after.startTime = now
            /\ (before.endTime = 0
                  /\ before.state \notin {STEP_PERFORMED, STEP_ERRORED}
                  /\ after.state \in {STEP_PERFORMED, STEP_ERRORED})
                 => after.endTime = now

\* C13: endTime is set when a step enters Performed or Errored with no
\* endTime yet and is never overwritten by the four state mutators;
\* startTime is set when a step enters InProgress with no endTime yet, is
\* cleared by a successful setStepNotStarted, and is otherwise left alone;
\* a failing call changes nothing, and no call touches another step.
TimestampsFrame ==
    \A step \in DrivenSteps \cap DOMAIN journey.steps :
      \A c \in MutatorOutcomes(step) :
        LET before == journey.steps[step]
            after == c.r.journey.steps[step]
        IN  /\ ~c.r.ok => c.r.journey = journey
            /\ \A other \in DOMAIN journey.steps \ {step} :
                   c.r.journey.steps[other] = journey.steps[other]
            /\ before.endTime # 0 => after.endTime = before.endTime
            /\ after.endTime =
                   IF /\ before.endTime = 0
                      /\ after.state \in {STEP_PERFORMED, STEP_ERRORED}
                      /\ after.state # before.state
                   THEN now
                   ELSE before.endTime
            /\ after.startTime =
                   IF c.op = "setStepNotStarted" /\ c.r.ok
                   THEN 0
                   ELSE IF /\ after.state = STEP_IN_PROGRESS
                           /\ before.state # STEP_IN_PROGRESS
                           /\ before.endTime = 0
                   THEN now
                   ELSE before.startTime

\* A step with both times set went back to InProgress by force at a later
\* clock value and kept them.
ForcedReentryKeptTimes ==
    /\ lastOp.op = "setStepInProgress"
    /\ lastOp.force
    /\ lastOp.ok
    /\ lastOp.before \in {STEP_PERFORMED, STEP_ERRORED}
    /\ journey.steps[lastOp.step].state = STEP_IN_PROGRESS
    /\ journey.steps[lastOp.step].startTime # 0
    /\ journey.steps[lastOp.step].endTime # 0
    /\ now > journey.steps[lastOp.step].endTime

-----------------------------------------------------------------------------
(* cleanup() on a spawner without a preloader.                             *)

CleanupWithoutPreloader == Cleanup /\ pid = -1

\* C14 as stated: cleanup() on a spawner without a preloader changes no
\* spawner state, closes no descriptor, signals or waits for no process and
\* unlinks no file.
CleanupChangesNothing ==
    [][CleanupWithoutPreloader
           => UNCHANGED << fieldVars, m_lastUsed, syncher, procs, unlinked >>]_vars

\* C14: cleanup() on a spawner without a preloader returns normally, sets
\* lastUsed to the time of the call and changes nothing else of the spawner:
\* the preloader fields stay as they are, no descriptor is closed, no process
\* is signalled or waited for and no file is unlinked.
CleanupOnlyTouchesLastUsed ==
    [][CleanupWithoutPreloader
           => /\ UNCHANGED << fieldVars, syncher, procs, unlinked >>
              /\ m_lastUsed' = calls'
              /\ outcome' = "ok"
              /\ exception' = NoException]_vars

\* A second cleanup() right after a first one has returned.
SecondCleanupReturned ==
    /\ pc = "idle"
    /\ calls = 2
    /\ callKind = "cleanup"
    /\ outcome = "ok"
    /\ JourneyIdle
    /\ pid = -1
    /\ m_lastUsed = 2

-----------------------------------------------------------------------------
(* The preloader's lifecycle around cleanup().                             *)

CleanupReturned == pc = "idle" /\ callKind = "cleanup"

\* C15: after any cleanup() the spawner has no preloader: getPreloaderPid()
\* is -1, so that the next spawn() starts a fresh one before it sends the
\* fork command.
CleanupLeavesNoPreloader == CleanupReturned => pid = -1

\* cleanup() has failed while stopping a preloader that runs on.
CleanupFailedHalfway ==
    /\ CleanupReturned
    /\ outcome = "exception"
    /\ pid # -1
    /\ isRunning(pid)
    /\ ~preloaderStdin

-----------------------------------------------------------------------------
(* TSpec: threads calling spawn(), cleanup(), getPreloaderPid() and the    *)
(* destructor of one SmartSpawner.  A step is what a thread does between   *)
(* two points at which another thread can observe or change the spawner;   *)
(* every block under simpleFieldSyncher is one step.                       *)

callLocals == << pc, callKind, plan, attempts, restarts, crashes, stopFailed,
                 restartFailed, startRet, startPid, startSession, session,
                 response, forkResult, spawnedUid, handshakePid, outcome,
                 exception, result >>

\* Steps taken with `syncher' held.
ProtocolPcs ==
    { "startPreloader", "startHandshake", "startWatcher", "forkCommand",
      "handshake", "stopPreloader", "stopReset" }

\* A lock that is never found taken.
CanLockAlways == TRUE

\* boost::lock_guard<boost::mutex> on syncher: its constructor returns once
\* no other thread holds the mutex.
CanLock == syncher = "free"

\* A journey of the call of thread t changes state.
Logged(t) ==
    IF journeyLog # << >> /\ journeyLog[Len(journeyLog)] = threads[t].id
    THEN journeyLog
    ELSE Append(journeyLog, threads[t].id)

\* The thread goes on inside its call.
Stay(t, r) ==
    /\ threads' = [threads EXCEPT ![t] = r]
    /\ UNCHANGED << syncher, destroyed >>

\* The call of thread t returns or throws: its lock_guard releases syncher.
Leave(t) ==
    /\ threads' = [threads EXCEPT ![t] = NoCall]
    /\ syncher' = "free"
    /\ destroyed' = IF threads[t].kind = "destroy" THEN "destroyed"
                    ELSE destroyed

\* Thread t can begin a call: the spawner is alive, the thread is in no
\* call, and, the threads being alike, it is the first such thread.
CanCall(t) ==
    /\ destroyed = "alive"
    /\ threads[t].pc = "idle"
    /\ \A u \in Threads : threads[u].pc = "idle" => t <= u

\* spawn() up to its lock_guard.
TSpawn(t) ==
    /\ CanCall(t)
    /\ calls < MaxCalls
    /\ calls' = calls + 1
    /\ m_lastUsed' = calls + 1
    /\ threads' = [threads EXCEPT ![t] =
                       [NoCall EXCEPT !.pc = "lock", !.kind = "spawn",
                                      !.id = calls + 1]]
    /\ UNCHANGED << journeyVars, setupperVars, optionsVars, lockVars, stopVars, timeoutVars, fieldVars, syncher, osVars, callLocals,
                    preloaders, journeyLog, destroyed, lastRead >>

\* cleanup() up to its lock_guard.
TCleanup(t) ==
    /\ CanCall(t)
    /\ calls < MaxCalls
    /\ calls' = calls + 1
    /\ m_lastUsed' = calls + 1
    /\ threads' = [threads EXCEPT ![t] =
                       [NoCall EXCEPT !.pc = "lock", !.kind = "cleanup",
                                      !.id = calls + 1]]
    /\ UNCHANGED << journeyVars, setupperVars, optionsVars, lockVars, stopVars, timeoutVars, fieldVars, syncher, osVars, callLocals,
                    preloaders, journeyLog, destroyed, lastRead >>

\* ~SmartSpawner() up to its lock_guard.  No call begins on a spawner whose
\* destructor has been entered; the calls already begun go on.
TDestroy(t) ==
    /\ CanCall(t)
    /\ calls < MaxCalls
    /\ calls' = calls + 1
    /\ destroyed' = "destroying"
    /\ threads' = [threads EXCEPT ![t] =
                       [NoCall EXCEPT !.pc = "lock", !.kind = "destroy",
                                      !.id = calls + 1]]
    /\ UNCHANGED << journeyVars, setupperVars, optionsVars, lockVars, stopVars, timeoutVars, fieldVars, m_lastUsed, syncher, osVars,
                    callLocals, preloaders, journeyLog, lastRead >>

\* getPreloaderPid().
TGetPreloaderPid(t) ==
    /\ CanCall(t)
    /\ lastRead' = [read |-> TRUE, value |-> pid]
    /\ UNCHANGED << journeyVars, setupperVars, optionsVars, lockVars, stopVars, timeoutVars, spawnerVars, osVars, callVars, threads,
                    preloaders, journeyLog, destroyed >>

\* The lock_guard on syncher of spawn(), cleanup() and the destructor, and
\* in spawn() the test whether a preloader is there.
TLock(t) ==
    /\ threads[t].pc = "lock"
    /\ CanLock
    /\ syncher' = "held"
    /\ threads' = [threads EXCEPT ![t].pc =
                       IF threads[t].kind # "spawn" THEN "stopPreloader"
                       ELSE IF preloaderStarted THEN "forkCommand"
                       ELSE "startPreloader"]
    /\ UNCHANGED << journeyVars, setupperVars, optionsVars, lockVars, stopVars, timeoutVars, fieldVars, m_lastUsed, osVars, callVars,
                    preloaders, journeyLog, destroyed, lastRead >>

\* startPreloader() up to and including the fork.
TStartPreloaderFork(t) ==
    /\ threads[t].pc = "startPreloader"
    /\ journeyLog' = Logged(t)
    /\ \E forked \in BOOLEAN :
        IF forked
        THEN /\ procs' = Forked(0)
             /\ preloaders' = preloaders \cup {NextPid}
             /\ Stay(t, [threads[t] EXCEPT !.pc = "startHandshake",
                                           !.guardPid = NextPid,
                                           !.session = TRUE])
        ELSE /\ Leave(t)
             /\ UNCHANGED << procs, preloaders >>
    /\ UNCHANGED << journeyVars, setupperVars, optionsVars, lockVars, stopVars, timeoutVars, fieldVars, m_lastUsed, unlinked, callVars,
                    lastRead >>

\* startPreloader(): the handshake, and after it the assignment of the
\* fields with the loading of the annotations.
TStartPreloaderHandshake(t) ==
    /\ threads[t].pc = "startHandshake"
    /\ journeyLog' = Logged(t)
    /\ \E how \in {"ok", "handshake", "annotations"} :
        CASE how = "handshake" ->
               /\ procs' = nonInterruptableKillAndWaitpid(procs,
                                                          threads[t].guardPid)
               /\ Leave(t)
               /\ UNCHANGED fieldVars
          [] how = "annotations" ->
               /\ socketAddress' = findPreloaderCommandSocketAddress(
                                        << PreloaderSocketUnix >>)
               /\ pid' = threads[t].guardPid
               /\ preloaderStdin' = TRUE
               /\ procs' = nonInterruptableKillAndWaitpid(procs,
                                                          threads[t].guardPid)
               /\ Leave(t)
               /\ UNCHANGED preloaderAnnotations
          [] how = "ok" ->
               /\ socketAddress' = findPreloaderCommandSocketAddress(
                                        << PreloaderSocketUnix >>)
               /\ pid' = threads[t].guardPid
               /\ preloaderStdin' = TRUE
               /\ preloaderAnnotations' = {"ruby_version"}
               /\ Stay(t, [threads[t] EXCEPT !.pc = "startWatcher"])
               /\ UNCHANGED procs
    /\ UNCHANGED << journeyVars, setupperVars, optionsVars, lockVars, stopVars, timeoutVars, m_lastUsed, unlinked, callVars, preloaders,
                    lastRead >>

\* startPreloader(): the pipe watcher is started and the guard cleared.
TStartPreloaderWatch(t) ==
    /\ threads[t].pc = "startWatcher"
    /\ journeyLog' = Logged(t)
    /\ \E started \in BOOLEAN :
        IF started
        THEN /\ Stay(t, [threads[t] EXCEPT !.pc = "forkCommand",
                                           !.guardPid = -1,
                                           !.session = FALSE])
             /\ UNCHANGED procs
        ELSE /\ procs' = nonInterruptableKillAndWaitpid(procs,
                                                        threads[t].guardPid)
             /\ Leave(t)
    /\ UNCHANGED << journeyVars, setupperVars, optionsVars, lockVars, stopVars, timeoutVars, fieldVars, m_lastUsed, unlinked, callVars,
                    preloaders, lastRead >>

\* spawn(): the session, HandshakePrepare and the fork command.  The
\* preloader answers with a child, crashes (the preloader is then stopped,
\* and the first time started again), or reports an error.
TForkCommand(t) ==
    /\ threads[t].pc = "forkCommand"
    /\ journeyLog' = Logged(t)
    /\ \E how \in {"ok", "crash", "error"} :
        CASE how = "ok" ->
               /\ isRunning(pid)
               /\ procs' = Forked(AppUid)
               /\ Stay(t, [threads[t] EXCEPT !.pc = "handshake",
                                             !.guardPid = NextPid,
                                             !.session = TRUE])
          [] how = "crash" ->
               /\ Stay(t, [threads[t] EXCEPT !.pc = "stopPreloader",
                                             !.crashes = @ + 1,
                                             !.session = TRUE])
               /\ UNCHANGED procs
          [] how = "error" ->
               /\ Leave(t)
               /\ UNCHANGED procs
    /\ UNCHANGED << journeyVars, setupperVars, optionsVars, lockVars, stopVars, timeoutVars, fieldVars, m_lastUsed, unlinked, callVars,
                    preloaders, lastRead >>

\* spawn(): HandshakePerform on the forked child, and the return.
THandshake(t) ==
    /\ threads[t].pc = "handshake"
    /\ journeyLog' = Logged(t)
    /\ \E finished \in BOOLEAN :
           procs' = IF finished THEN procs
                    ELSE nonInterruptableKillAndWaitpid(procs,
                                                        threads[t].guardPid)
    /\ Leave(t)
    /\ UNCHANGED << journeyVars, setupperVars, optionsVars, lockVars, stopVars, timeoutVars, fieldVars, m_lastUsed, unlinked, callVars,
                    preloaders, lastRead >>

\* Where stopPreloader() returns to: cleanup() and the destructor return;
\* spawn() starts the preloader again after the first crash and throws
\* after the second.
StopReturns(t) ==
    IF threads[t].kind = "spawn" /\ threads[t].crashes = 1
    THEN Stay(t, [threads[t] EXCEPT !.pc = "startPreloader",
                                    !.session = FALSE])
    ELSE Leave(t)

\* stopPreloader() up to the end of the wait for the preloader.
TStopPreloaderWait(t) ==
    /\ threads[t].pc = "stopPreloader"
    /\ IF ~preloaderStarted
       THEN /\ StopReturns(t)
            /\ UNCHANGED << preloaderStdin, procs >>
       ELSE \E exited \in BOOLEAN, throws \in BOOLEAN :
                /\ preloaderStdin' = FALSE
                /\ IF throws
                   THEN /\ Leave(t)
                        /\ UNCHANGED procs
                   ELSE /\ procs' = IF isRunning(pid)
                                    THEN [procs EXCEPT
                                              ![pid].state = "reaped",
                                              ![pid].sigkill = ~exited]
                                    ELSE procs
                        /\ Stay(t, [threads[t] EXCEPT !.pc = "stopReset"])
    /\ UNCHANGED << journeyVars, setupperVars, optionsVars, lockVars, stopVars, timeoutVars, pid, socketAddress, preloaderAnnotations,
                    m_lastUsed, unlinked, callVars, preloaders, journeyLog,
                    lastRead >>

\* stopPreloader(): the socket file is unlinked and the fields are reset.
TStopPreloaderReset(t) ==
    /\ threads[t].pc = "stopReset"
    /\ unlinked' = IF getSocketAddressType(socketAddress) = SAT_UNIX
                   THEN unlinked \cup {parseUnixSocketAddress(socketAddress)}
                   ELSE unlinked
    /\ pid' = -1
    /\ socketAddress' = ""
    /\ preloaderStdin' = FALSE
    /\ preloaderAnnotations' = {}
    /\ StopReturns(t)
    /\ UNCHANGED << journeyVars, setupperVars, optionsVars, lockVars, stopVars, timeoutVars, m_lastUsed, procs, callVars, preloaders,
                    journeyLog, lastRead >>

TNext ==
    \E t \in Threads :
        \/ TSpawn(t)
        \/ TCleanup(t)
        \/ TDestroy(t)
        \/ TGetPreloaderPid(t)
        \/ TLock(t)
        \/ TStartPreloaderFork(t)
        \/ TStartPreloaderHandshake(t)
        \/ TStartPreloaderWatch(t)
        \/ TForkCommand(t)
        \/ THandshake(t)
        \/ TStopPreloaderWait(t)
        \/ TStopPreloaderReset(t)

TSpec == Init /\ [][TNext]_vars

-----------------------------------------------------------------------------
(* Serialization of the calls on one spawner.                              *)

InProtocol == {t \in Threads : threads[t].pc \in ProtocolPcs}
LivePreloaders == {p \in preloaders : isRunning(p)}
OpenSessions == {t \in Threads : threads[t].session}

\* C16: of the threads calling spawn(), cleanup() and the destructor at most
\* one is inside the preloader start/stop/fork-command protocol, and it is
\* the one holding syncher; at most one preloader is alive; at most one
\* call has a session whose journey moves, and the journey transitions of
\* one call are not interleaved with those of another.
CallsSerialized ==
    /\ Cardinality(InProtocol) <= 1
    /\ (syncher = "held") <=> (InProtocol # {})
    /\ Cardinality(LivePreloaders) <= 1
    /\ Cardinality(OpenSessions) <= 1
    /\ OpenSessions \subseteq InProtocol
    /\ \A i, k \in 1..Len(journeyLog) : journeyLog[i] = journeyLog[k] => i = k

\* A thread waits for syncher while another one, which had to wait itself,
\* runs the protocol with a live preloader.
ThreadWaitsForSyncher ==
    \E t, u \in Threads :
        /\ threads[t].pc \in ProtocolPcs
        /\ threads[u].pc = "lock"
        /\ threads[u].id < threads[t].id
        /\ LivePreloaders # {}

-----------------------------------------------------------------------------
(* What getPreloaderPid() returns.                                         *)

\* p is the current preloader: a process forked as preloader that the
\* spawner has not killed and reaped.  (The pid field is assigned only
\* after the startup handshake.)
CurrentPreloader(p) ==
    /\ p \in preloaders
    /\ p \in DOMAIN procs
    /\ procs[p].state # "reaped"

\* C17: getPreloaderPid() returns -1 or the pid of the current preloader,
\* never the pid of a process the spawner has already killed and reaped.
PreloaderPidIsCurrent ==
    [][\A t \in Threads :
           TGetPreloaderPid(t) => (pid = -1 \/ CurrentPreloader(pid))]_vars

\* getPreloaderPid() has returned the pid of a reaped process while another
\* thread is between the wait and the field reset of stopPreloader().
StalePidRead ==
    /\ lastRead.read
    /\ lastRead.value # -1
    /\ lastRead.value = pid
    /\ ~CurrentPreloader(pid)
    /\ \E t \in Threads : threads[t].pc = "stopReset"

-----------------------------------------------------------------------------
(* USpec: SpawnEnvSetupperMain.cpp, one run of the spawn environment       *)
(* setupper.  Each system call and library call ends in any of the ways    *)
(* the code distinguishes.  The statements after the try block of main are *)
(* not reached (execNextCommand does not return) and have no action.       *)

spawnerState == << journeyVars, spawnerVars, osVars, callVars, threadVars,
                  optionsVars, lockVars, stopVars, timeoutVars >>

\* args.json: "user" names an account, is a number without an account, is
\* a name without an account, or is missing; likewise "group".
Accounts == {"known", "number", "unknown"}
\* "environment_variables" is an object: a set of name and value pairs.
EnvironmentVariables ==
    { {}, { << "IN_PASSENGER", "0" >> }, { << "IN_PASSENGER", "1" >> },
      { << "PASSENGER_APP_ENV", "staging" >> } }
ArgsJson ==
    [parsed : {TRUE}, user : Accounts \cup {"none"}, group : Accounts,
     loadShellEnvvars : BOOLEAN, startsUsingWrapper : BOOLEAN,
     appEnv : {"production"}, environmentVariables : EnvironmentVariables]

\* setenv(name, value, 1).
setenv(env, name, value) ==
    [n \in DOMAIN env |-> IF n = name THEN value ELSE env[n]]

\* setDefaultEnvvars(args), as far as it writes the variables followed.
setDefaultEnvvars(env, args) == setenv(env, "PASSENGER_APP_ENV", args.appEnv)

\* setGivenEnvVars(args): every member of "environment_variables" is set,
\* overwriting what is there.
setGivenEnvVars(env, args) ==
    [n \in DOMAIN env |->
        IF \E kv \in args.environmentVariables : kv[1] = n
        THEN (CHOOSE kv \in args.environmentVariables : kv[1] = n)[2]
        ELSE env[n]]

\* pw_shell of a passwd entry: the path of a shell as the sequence of its
\* components, or the empty field.  "/bin/sh" is also what
\* lookupCurrentUserShell falls back to.
Shells == { << "bin", "bash" >>, << "usr", "bin", "zsh" >>, << "bin", "sh" >>,
            << >> }

\* A call of one of the record* functions: the file it is about, and
\* whether the file was written (createFile and makeDirTree failures are
\* caught and only warned about).
Record(what, step, value) ==
    [what |-> what, step |-> step, value |-> value, ok |-> workDirWritable]

\* recordJourneyStepInProgress(context, step).
recordJourneyStepInProgress(step) ==
    << Record("step", step, STEP_IN_PROGRESS) >>

\* recordJourneyStepComplete(context, step, state, startTime).
recordJourneyStepComplete(step, state) == << Record("step", step, state) >>

recordJourneyStepPerformed ==
    recordJourneyStepComplete(context.step, STEP_PERFORMED)

recordJourneyStepErrored ==
    recordJourneyStepComplete(context.step, STEP_ERRORED)

recordErrorCategory(category) ==
    << Record("category", UNKNOWN_JOURNEY_STEP, category) >>

recordAdvancedProblemDetails(message) ==
    << Record("advanced_problem_details", UNKNOWN_JOURNEY_STEP, message) >>

recordErrorSummary(message, isAlsoAdvancedProblemDetails) ==
    << Record("summary", UNKNOWN_JOURNEY_STEP, message) >>
    \o (IF isAlsoAdvancedProblemDetails
        THEN recordAdvancedProblemDetails(message) ELSE << >>)

recordProblemDescriptionHTML(message) ==
    << Record("problem_description", UNKNOWN_JOURNEY_STEP, message) >>

recordSolutionDescriptionHTML(message) ==
    << Record("solution_description", UNKNOWN_JOURNEY_STEP, message) >>

\* exit(code), or return code from main.
Exit(code) ==
    /\ ending' = [how |-> "exit", code |-> code]
    /\ setupperPc' = "done"

\* The process is ended by a signal (SIGSEGV, SIGABRT).
Signalled ==
    /\ ending' = [how |-> "signal", code |-> -1]
    /\ setupperPc' = "done"

\* The fatal errors of the helper functions: the step is recorded as
\* errored, then the category, the summary and what else there is to say,
\* then exit(1).
Fatal(category, message, html) ==
    /\ recorded' = recorded \o recordJourneyStepErrored
                            \o recordErrorCategory(category)
                            \o recordErrorSummary(message, html = << >>)
                            \o html
    /\ Exit(1)

\* spawnEnvSetupperMain up to the try block.
SMain ==
    /\ setupperPc = "main"
    /\ \E argc \in {3, 4}, mode \in {BEFORE_MODE, AFTER_MODE},
          writable \in BOOLEAN :
        /\ workDirWritable' = writable
        /\ IF argc # 4
           THEN /\ Exit(1)
                /\ UNCHANGED << context, recorded, environ >>
           ELSE LET step == IF mode = BEFORE_MODE
                            THEN SUBPROCESS_SPAWN_ENV_SETUPPER_BEFORE_SHELL
                            ELSE SUBPROCESS_SPAWN_ENV_SETUPPER_AFTER_SHELL
                IN  /\ context' = [NoContext EXCEPT !.mode = mode,
                                                    !.step = step]
                    /\ environ' = setenv(environ, "IN_PASSENGER", "1")
                    /\ recorded' =
                           << [what |-> "step",
                               step |-> SUBPROCESS_BEFORE_FIRST_EXEC,
                               value |-> STEP_PERFORMED, ok |-> writable],
                              [what |-> "step", step |-> step,
                               value |-> STEP_IN_PROGRESS, ok |-> writable] >>
                    /\ setupperPc' = "readArgs"
                    /\ UNCHANGED ending
    /\ UNCHANGED << spawnerState, locals, effects >>

\* readArgsJson, which logs and exits when args.json does not parse, then
\* canSwitchUser, initializeLogLevel, dumpAllEnvironmentInfo.
SReadArgsJson ==
    /\ setupperPc = "readArgs"
    /\ \E parses \in BOOLEAN, args \in ArgsJson, root \in BOOLEAN :
        IF ~parses
        THEN /\ Exit(1)
             /\ UNCHANGED << context, locals, recorded >>
        ELSE /\ context' = [context EXCEPT !.args = args]
             /\ locals' = [locals EXCEPT !.shouldTrySwitchUser =
                                             args.user # "none" /\ root]
             /\ setupperPc' = IF context.mode = BEFORE_MODE
                              THEN "lookupUser" ELSE "setCwd"
             /\ UNCHANGED << recorded, ending >>
    /\ UNCHANGED << spawnerState, workDirWritable, environ, effects >>

\* The user and the group of lookupUserGroup: the entry, no entry but a
\* number (NULL), or no entry at all (fatal).
lookupUserGroup ==
    IF context.args.user = "unknown"
    THEN "user"
    ELSE IF context.args.group = "unknown"
    THEN "group"
    ELSE IF context.args.user = "known" THEN "entry" ELSE "NULL"

\* BEFORE_MODE: setDefaultEnvvars, lookupUserGroup with the read of
\* userInfo->pw_shell, or lookupCurrentUserShell and setUlimits.  Reading
\* through a null userInfo is undefined: the process is killed, or goes on
\* with whatever it read.
SLookupUser ==
    /\ setupperPc = "lookupUser"
    /\ environ' = setDefaultEnvvars(environ, context.args)
    /\ IF locals.shouldTrySwitchUser
       THEN CASE lookupUserGroup \in {"user", "group"} ->
                   /\ Fatal(OPERATING_SYSTEM_ERROR,
                            "Cannot lookup up system database entry", << >>)
                   /\ UNCHANGED << locals, effects >>
              [] lookupUserGroup = "entry" ->
                   /\ \E shell \in Shells :
                          locals' = [locals EXCEPT !.userInfo = "entry",
                                                   !.shell = shell]
                   /\ effects' = Append(effects, "lookupUserGroup")
                   /\ setupperPc' = "switchUser"
                   /\ UNCHANGED << recorded, ending >>
              [] lookupUserGroup = "NULL" ->
                   \/ /\ Signalled
                      /\ effects' = Append(effects, "lookupUserGroup")
                      /\ UNCHANGED << recorded, locals >>
                   \/ /\ \E shell \in Shells :
                             locals' = [locals EXCEPT !.userInfo = "NULL",
                                                      !.shell = shell]
                      /\ effects' = Append(effects, "lookupUserGroup")
                      /\ setupperPc' = "switchUser"
                      /\ UNCHANGED << recorded, ending >>
       ELSE /\ \E shell \in Shells \cup {<< "bin", "sh" >>} :
                   locals' = [locals EXCEPT !.shell = shell]
            /\ \E ulimit \in BOOLEAN :
                   effects' = IF ulimit THEN Append(effects, "setrlimit")
                              ELSE effects
            /\ setupperPc' = "setCwd"
            /\ UNCHANGED << recorded, ending >>
    /\ UNCHANGED << spawnerState, context, workDirWritable >>

\* The calls of the user switch with setuid before the group is switched.
SwitchCallsUserFirst(ulimit, lve, userInfo, ngroups) ==
    << "lve", "setuid", "setgid" >>

\* The calls main makes to switch the user, in the order it makes them:
\* setUlimits (setrlimit, when a limit is configured and can be set),
\* enterLveJail (the library is initialised; jail, when LVE is available),
\* switchGroup (for a passwd entry getgrouplist, then setgroups for at most
\* NGROUPS_MAX groups and initgroups for more; setgid), switchUser (setuid).
SwitchCalls(ulimit, lve, userInfo, ngroups) ==
    (IF ulimit THEN << "setrlimit" >> ELSE << >>)
    \o << "lve" >>
    \o (IF lve THEN << "jail" >> ELSE << >>)
    \o (IF userInfo = "NULL" THEN << >>
        ELSE << "getgrouplist",
                IF ngroups <= NGROUPS_MAX THEN "setgroups" ELSE "initgroups" >>)
    \o << "setgid", "setuid" >>

\* The calls made before the call at position i.
CallsBefore(made, i) == SubSeq(made, 1, i - 1)

\* What getgrouplist stores in groups for a user with ngroups groups,
\* starting with the primary group.
getgrouplist(ngroups) == [i \in 1..ngroups |-> 1000 + (i - 1)]

\* What new gid_t[ngroups] may hold: the array is not initialised and
\* switchGroup stores nothing in it, so each element is any group id, that
\* of root included; it may also happen to hold what groups holds.
Indeterminate == {0, 1000}
NewGidset(ngroups) ==
    [1..ngroups -> Indeterminate] \cup {getgrouplist(ngroups)}

\* The arrays of switchGroup after the calls made: groups once getgrouplist
\* was called, gidset once it was allocated for setgroups.
SwitchGroupArrays(made, ngroups, gidset) ==
    [groups |-> IF \E i \in DOMAIN made : made[i] = "getgrouplist"
                THEN getgrouplist(ngroups) ELSE << >>,
     gidset |-> IF \E i \in DOMAIN made : made[i] = "setgroups"
                THEN gidset ELSE << >>]

\* BEFORE_MODE with a user to switch to: setUlimits, enterLveJail,
\* switchGroup, switchUser.  Every call but setrlimit is fatal when it
\* fails.
SSwitchUser ==
    /\ setupperPc = "switchUser"
    /\ \E ulimit \in BOOLEAN, lve \in BOOLEAN, ngroups \in 1..(NGROUPS_MAX + 1) :
        \E gidset \in NewGidset(ngroups) :
        LET made == SwitchCalls(ulimit, lve, locals.userInfo, ngroups)
            arrays(upTo) == SwitchGroupArrays(upTo, ngroups, gidset)
        IN  \/ /\ effects' = effects \o made
               /\ locals' = [locals EXCEPT !.groups = arrays(made).groups,
                                           !.gidset = arrays(made).gidset]
               /\ setupperPc' = "setCwd"
               /\ UNCHANGED << recorded, ending >>
            \/ \E i \in 1..Len(made) :
                  /\ made[i] # "setrlimit"
                  /\ effects' = effects \o CallsBefore(made, i)
                  /\ locals' =
                         [locals EXCEPT
                             !.groups = arrays(SubSeq(made, 1, i)).groups,
                             !.gidset = arrays(SubSeq(made, 1, i)).gidset]
                  /\ Fatal(IF made[i] \in {"lve", "jail"}
                           THEN INTERNAL_ERROR ELSE OPERATING_SYSTEM_ERROR,
                           made[i], << >>)
    /\ UNCHANGED << spawnerState, context, workDirWritable, environ >>

\* Paths are strings written as the sequence of their parts, each a "/"
\* or a name: "/app" is << "/", "app" >>, "/" is << "/" >>, and << >> is
\* the empty string.  args.json gives one of these as "app_root".
AppRoots == { << "/", "app" >>, << "/", "var", "/", "www" >> }

\* split(path, '/', components): the names between the separators, the
\* empty name where nothing stands between two of them.
RECURSIVE split(_)
split(path) ==
    IF path = << >>
    THEN << "" >>
    ELSE IF Head(path) = "/"
    THEN << "" >> \o split(Tail(path))
    ELSE << Head(path) >> \o Tail(split(Tail(path)))

\* inferAllParentDirectories(path): the path up to and including each of
\* its components after the leading empty one, from the top down.
inferAllParentDirectories(path) ==
    LET components == Tail(split(path))
        RECURSIVE path2(_)
        path2(i) == IF i = 0 THEN << >>
                    ELSE path2(i - 1) \o << "/" >>
                         \o (IF components[i] = "" THEN << >>
                             ELSE << components[i] >>)
    IN  [i \in 1..Len(components) |->
            IF path2(i) = << >> THEN << "/" >> ELSE path2(i)]

\* strrchr(path, '/') as an index, and the bytes before it, which
\* setCurrentWorkingDirectory copies into parent.
strrchr(path) ==
    CHOOSE i \in DOMAIN path :
        path[i] = "/" /\ \A j \in DOMAIN path : path[j] = "/" => j <= i
parentOf(path) == SubSeq(path, 1, strrchr(path) - 1)

\* The directory that holds the entry a path names.
dirname(path) ==
    IF strrchr(path) = 1 THEN << "/" >> ELSE SubSeq(path, 1, strrchr(path) - 1)

\* setCurrentWorkingDirectory, and in AFTER_MODE the environment variables.
\* stat fails on one of the directories, or chdir fails, or none does.  The
\* locals are kept as they are at an exit and are gone after a return.
SSetCurrentWorkingDirectory ==
    /\ setupperPc = "setCwd"
    /\ \E failure \in {"none", "EACCES", "stat", "chdir"}, appRoot \in AppRoots :
        /\ IF failure \in {"EACCES", "stat"}
           THEN \E at \in DOMAIN inferAllParentDirectories(appRoot) :
                    LET dirs == inferAllParentDirectories(appRoot)
                    IN  locals' =
                            [locals EXCEPT
                                !.appRoot = appRoot,
                                !.statted = SubSeq(dirs, 1, at),
                                !.parent = IF failure = "EACCES"
                                           THEN parentOf(dirs[at])
                                           ELSE << >>]
           ELSE locals' = [locals EXCEPT
                              !.appRoot = IF failure = "chdir" THEN appRoot
                                          ELSE << >>,
                              !.statted = IF failure = "chdir"
                                          THEN inferAllParentDirectories(appRoot)
                                          ELSE << >>]
        /\ environ' =
               IF failure = "none" /\ context.mode = AFTER_MODE
               THEN setGivenEnvVars(setDefaultEnvvars(environ, context.args),
                                    context.args)
               ELSE environ
        /\ effects' = IF failure = "none" THEN Append(effects, "chdir")
                      ELSE effects
        /\ CASE failure = "none" ->
                  /\ setupperPc' = "exec"
                  /\ UNCHANGED << recorded, ending >>
             [] failure = "EACCES" ->
                  Fatal(OPERATING_SYSTEM_ERROR, "Directory is inaccessible",
                        recordProblemDescriptionHTML("wrong permissions")
                        \o recordSolutionDescriptionHTML("fix the permissions"))
             [] failure = "stat" ->
                  Fatal(OPERATING_SYSTEM_ERROR, "Unable to stat() directory",
                        << >>)
             [] failure = "chdir" ->
                  /\ recorded' =
                         recorded \o recordJourneyStepErrored
                                  \o recordErrorCategory(OPERATING_SYSTEM_ERROR)
                                  \o recordErrorSummary(
                                         "Unable to change working directory",
                                         TRUE)
                                  \o recordProblemDescriptionHTML(
                                         "filesystem error")
                  /\ Exit(1)
    /\ UNCHANGED << spawnerState, context, workDirWritable >>

\* shouldLoadShellEnvvars(args, shell), with the shell without a base name.
loadsAnyShellEnvvars(args, shell) == args.loadShellEnvvars

\* shouldLoadShellEnvvars(args, shell): "load_shell_envvars" is set and the
\* base name of the shell, the last component of its path, is that of a
\* shell known to take -lc.
shouldLoadShellEnvvars(args, shell) ==
    IF args.loadShellEnvvars
    THEN LET shellName == IF shell = << >> THEN "" ELSE shell[Len(shell)]
         IN  shellName = "bash" \/ shellName = "zsh" \/ shellName = "ksh"
    ELSE FALSE

\* The journey step of the command execNextCommand executes.
nextJourneyStep ==
    IF context.mode = BEFORE_MODE
    THEN IF shouldLoadShellEnvvars(context.args, locals.shell)
         THEN SUBPROCESS_OS_SHELL
         ELSE SUBPROCESS_SPAWN_ENV_SETUPPER_AFTER_SHELL
    ELSE IF context.args.startsUsingWrapper
         THEN SUBPROCESS_EXEC_WRAPPER
         ELSE SUBPROCESS_APP_LOAD_OR_EXEC

\* The calls of execNextCommand once its command is made up, whether
\* execvp replaces the process or fails.
ExecCalls ==
    << "recordJourneyStepPerformed", "recordJourneyStepInProgress", "execvp" >>

\* execNextCommand.  assert(!shell.empty()) aborts the process unless the
\* build has assertions disabled.
SExecNextCommand ==
    /\ setupperPc = "exec"
    /\ \/ /\ context.mode = BEFORE_MODE
          /\ locals.shell = << >>
          /\ Signalled
          /\ UNCHANGED << recorded, effects >>
       \/ \E executed \in BOOLEAN :
              IF executed
              THEN /\ effects' = effects \o ExecCalls
                   /\ recorded' =
                          recorded \o recordJourneyStepPerformed
                                   \o recordJourneyStepInProgress(
                                          nextJourneyStep)
                   /\ ending' = [how |-> "exec", code |-> -1]
                   /\ setupperPc' = "done"
              ELSE /\ effects' = effects \o ExecCalls
                   /\ recorded' =
                          recorded \o recordJourneyStepPerformed
                                   \o recordJourneyStepInProgress(
                                          nextJourneyStep)
                                   \o recordJourneyStepComplete(
                                          nextJourneyStep, STEP_ERRORED)
                                   \o recordErrorCategory(
                                          OPERATING_SYSTEM_ERROR)
                                   \o recordErrorSummary(
                                          "Unable to execute command", TRUE)
                   /\ Exit(1)
    /\ UNCHANGED << spawnerState, context, locals, workDirWritable, environ >>

\* A call inside the try block of main throws, and main's handlers record
\* the error and return 1.
SCatch ==
    /\ setupperPc \in {"readArgs", "lookupUser", "switchUser", "setCwd",
                       "exec"}
    /\ \E type \in {"SystemException", "IOException", "std::exception"} :
           recorded' =
               recorded \o recordJourneyStepErrored
                        \o recordErrorCategory(
                               inferErrorCategoryFromAnotherException(type))
                        \o recordErrorSummary(type, TRUE)
    /\ Exit(1)
    /\ UNCHANGED << spawnerState, context, locals, workDirWritable, environ,
                    effects >>

UNext ==
    \/ SMain
    \/ SReadArgsJson
    \/ SLookupUser
    \/ SSwitchUser
    \/ SSetCurrentWorkingDirectory
    \/ SExecNextCommand
    \/ SCatch

USpec == Init /\ [][UNext]_vars

-----------------------------------------------------------------------------
(* How the setupper ends.                                                  *)

\* C18: a run of the setupper that ends has replaced the process through a
\* successful exec or has exited with status 1; it never exits with
\* status 0.
SetupperExecsOrExitsOne ==
    \/ ending.how \in {"running", "exec"}
    \/ ending.how = "exit" /\ ending.code = 1

\* The setupper was killed reading the shell of a user that has no passwd
\* entry.
SetupperKilled ==
    /\ ending.how = "signal"
    /\ setupperPc = "done"
    /\ context.args.user = "number"
    /\ locals.shouldTrySwitchUser

RecordedInOrder(whats) ==
    \E at \in [1..Len(whats) -> 1..Len(recorded)] :
        /\ \A i \in 1..Len(whats) : recorded[at[i]].what = whats[i]
        /\ \A i \in 1..(Len(whats) - 1) : at[i] < at[i + 1]
        /\ recorded[at[1]].value = STEP_ERRORED

\* C19: a fatal exit of the setupper past its argument check comes with
\* status 1 after a journey step was recorded as Errored, then an error
\* category, then an error summary.
FatalExitsRecorded ==
    (ending.how = "exit" /\ context.step # UNKNOWN_JOURNEY_STEP)
        => /\ ending.code = 1
           /\ RecordedInOrder(<< "step", "category", "summary" >>)

\* The setupper has exited on an args.json that does not parse.
UnparsableArgsExit ==
    /\ ending.how = "exit"
    /\ context.step # UNKNOWN_JOURNEY_STEP
    /\ ~context.args.parsed
    /\ \A i \in 1..Len(recorded) : recorded[i].value # STEP_ERRORED

-----------------------------------------------------------------------------
(* The journey of a successful spawn().                                    *)

\* The orchestrator steps of a SPAWN_THROUGH_PRELOADER journey.
HappyPathSteps ==
    { SPAWNING_KIT_PREPARATION, SPAWNING_KIT_CONNECT_TO_PRELOADER,
      SPAWNING_KIT_SEND_COMMAND_TO_PRELOADER,
      SPAWNING_KIT_READ_RESPONSE_FROM_PRELOADER,
      SPAWNING_KIT_PARSE_RESPONSE_FROM_PRELOADER,
      SPAWNING_KIT_PROCESS_RESPONSE_FROM_PRELOADER,
      SPAWNING_KIT_HANDSHAKE_PERFORM, SPAWNING_KIT_FINISH }

\* spawn() has succeeded through the preloader that was already running:
\* the call started no preloader and met no crash.
HappyPath ==
    /\ SpawnSucceeded
    /\ restarts = 0
    /\ crashes = << >>
    /\ startSession = NoSession

\* C20: when spawn() through an already running preloader succeeds, every
\* orchestrator step of its journey is Performed when spawn() returns.
HappyPathAllPerformed ==
    HappyPath =>
        \A step \in HappyPathSteps :
            /\ hasStep(session.journey, step)
            /\ session.journey.steps[step].state = STEP_PERFORMED

\* spawn() has succeeded through the running preloader with the fork
\* command steps performed and other orchestrator steps not.
HappyPathLeftSteps ==
    /\ HappyPath
    /\ calls = 2
    /\ \A step \in ForkCommandSteps
                   \cup {SPAWNING_KIT_PARSE_RESPONSE_FROM_PRELOADER,
                         SPAWNING_KIT_HANDSHAKE_PERFORM} :
           session.journey.steps[step].state = STEP_PERFORMED
    /\ session.journey.steps[SPAWNING_KIT_PREPARATION].state
           = STEP_IN_PROGRESS
    /\ session.journey.steps[SPAWNING_KIT_PROCESS_RESPONSE_FROM_PRELOADER].state
           = STEP_IN_PROGRESS
    /\ session.journey.steps[SPAWNING_KIT_FINISH].state = STEP_NOT_STARTED

-----------------------------------------------------------------------------
(* OSpec: the Options handed to the SmartSpawner constructor.  An Options  *)
(* field is a StaticString: the address of text it does not own.  The      *)
(* caller sets fields, constructs the spawner, and overwrites or frees its *)
(* buffers in any order.                                                   *)

notOptions == << journeyVars, osVars, callVars, threadVars, setupperVars,
                lockVars, stopVars, timeoutVars >>

\* The text of a StaticString.
Value(mem, address) == IF address = 0 THEN "" ELSE mem[address]

\* What reading the text at an address can yield: a freed buffer yields
\* anything.
Reads(mem, address) ==
    IF Value(mem, address) = "freed" THEN Texts \cup {""}
    ELSE { Value(mem, address) }

\* A copy that shares the original's buffers.
copyShared(o, mem, read) == [options |-> o, memory |-> mem]

\* Options::copyAndPersist(): the copy's fields point into storage of its
\* own, which holds the texts read from the original.
copyAndPersist(o, mem, read) ==
    [options |-> [f \in FieldNames |-> StorageOf(f)],
     memory  |-> [a \in DOMAIN mem |->
                    IF a \in Storage
                    THEN read[CHOOSE f \in FieldNames : StorageOf(f) = a]
                    ELSE mem[a]]]

\* options.appRoot = appRoot; options.processTitle = processTitle;
OAssign ==
    \E f \in FieldNames, b \in Buffers \cup {0} :
        /\ callerOptions[f] # b
        /\ callerOptions' = [callerOptions EXCEPT ![f] = b]
        /\ UNCHANGED << memory, options, persisted, constructed >>
        /\ UNCHANGED << notOptions, spawnerVars >>

\* SmartSpawner(context, preloaderCommand, options).
OConstruct ==
    /\ constructed = "no"
    /\ \E size \in {1, 2} :
        IF size < 2
        THEN /\ constructed' = "thrown"
             /\ UNCHANGED << memory, options, persisted, fieldVars,
                             m_lastUsed >>
        ELSE \E read \in [FieldNames -> Texts \cup {""}] :
                /\ \A f \in FieldNames :
                       read[f] \in Reads(memory, callerOptions[f])
                /\ LET copy == copyAndPersist(callerOptions, memory, read)
                   IN  /\ options' = copy.options
                       /\ memory' = copy.memory
                /\ persisted' = read
                /\ pid' = -1
                /\ m_lastUsed' = 0
                /\ constructed' = "yes"
                /\ UNCHANGED << preloaderStdin, socketAddress,
                                preloaderAnnotations >>
    /\ UNCHANGED << notOptions, callerOptions, syncher >>

\* appRoot[0] = processTitle[0] = 'x', or any other write to a buffer the
\* caller owns.
OModify ==
    \E b \in Buffers, text \in Texts :
        /\ memory[b] \notin {"freed", text}
        /\ memory' = [memory EXCEPT ![b] = text]
        /\ UNCHANGED << callerOptions, options, persisted, constructed >>
        /\ UNCHANGED << notOptions, spawnerVars >>

\* The caller's buffer goes out of scope or is freed.
OFree ==
    \E b \in Buffers :
        /\ memory[b] # "freed"
        /\ memory' = [memory EXCEPT ![b] = "freed"]
        /\ UNCHANGED << callerOptions, options, persisted, constructed >>
        /\ UNCHANGED << notOptions, spawnerVars >>

ONext ==
    \/ OAssign
    \/ OConstruct
    \/ OModify
    \/ OFree

OSpec == Init /\ [][ONext]_vars

\* C21: every field of the Options the SmartSpawner stored at construction
\* keeps the text it had when it was copied, whatever the caller does to the
\* original buffers afterwards.
OptionsPersisted ==
    constructed = "yes" =>
        \A f \in FieldNames : Value(memory, options[f]) = persisted[f]

\* The spawner was constructed from two set fields; since then one of the
\* buffers they pointed to was overwritten and the other was freed.
OriginalBuffersGone ==
    /\ constructed = "yes"
    /\ \A f \in FieldNames :
          /\ persisted[f] \in {"appRoot", "processTitle"}
          /\ callerOptions[f] \in Buffers
          /\ memory[callerOptions[f]] # persisted[f]
    /\ \E f \in FieldNames : memory[callerOptions[f]] = "freed"
    /\ \E f \in FieldNames : memory[callerOptions[f]] \in Texts
    /\ \A f \in FieldNames : Value(memory, options[f]) = persisted[f]

-----------------------------------------------------------------------------
(* The environment the setupper hands on.                                  *)

\* The setupper in AFTER_MODE has executed the application's start command.
FinalExec == ending.how = "exec" /\ context.mode = AFTER_MODE

\* C22: at the final exec, IN_PASSENGER is "1" in the environment, for
\* every args.json, whatever its "environment_variables".
InPassengerAtFinalExec == FinalExec => environ["IN_PASSENGER"] = "1"

\* The application was started with IN_PASSENGER set to "0", as
\* "environment_variables" of args.json has it.
InPassengerOverridden ==
    /\ FinalExec
    /\ << "IN_PASSENGER", "0" >> \in context.args.environmentVariables
    /\ environ["IN_PASSENGER"] = "0"

\* Without IN_PASSENGER among the "environment_variables", it is "1".
InPassengerUnlessGiven ==
    (FinalExec /\ \A kv \in context.args.environmentVariables :
                      kv[1] # "IN_PASSENGER")
        => environ["IN_PASSENGER"] = "1"

-----------------------------------------------------------------------------
(* The order of the orchestrator's steps within one spawn().               *)

\* The orchestrator steps of a spawn through the preloader that the code
\* moves, in the order of the enumeration.
OrderedOrchestratorSteps ==
    << SPAWNING_KIT_PREPARATION,
       SPAWNING_KIT_CONNECT_TO_PRELOADER,
       SPAWNING_KIT_SEND_COMMAND_TO_PRELOADER,
       SPAWNING_KIT_READ_RESPONSE_FROM_PRELOADER,
       SPAWNING_KIT_PARSE_RESPONSE_FROM_PRELOADER,
       SPAWNING_KIT_PROCESS_RESPONSE_FROM_PRELOADER,
       SPAWNING_KIT_HANDSHAKE_PERFORM >>

StepStateAt(i) == session.journey.steps[OrderedOrchestratorSteps[i]].state

\* C23: during and after a spawn() call, an orchestrator step of its journey
\* has left NotStarted only if every earlier orchestrator step is Performed,
\* and at most one orchestrator step is InProgress.
StepsCausallyOrdered ==
    callKind = "spawn" =>
        /\ \A i \in 1..Len(OrderedOrchestratorSteps) :
              StepStateAt(i) # STEP_NOT_STARTED
                  => \A k \in 1..(i - 1) : StepStateAt(k) = STEP_PERFORMED
        /\ Cardinality({ i \in 1..Len(OrderedOrchestratorSteps) :
                             StepStateAt(i) = STEP_IN_PROGRESS }) <= 1

\* spawn() is connecting to the preloader while its preparation step is
\* still in progress.
ConnectingWhilePreparing ==
    /\ callKind = "spawn"
    /\ pc # "idle"
    /\ StepStateAt(1) = STEP_IN_PROGRESS
    /\ StepStateAt(2) = STEP_IN_PROGRESS

\* Leaving aside the two steps spawn() never completes (preparation and
\* the processing of the response), the steps advance in order.
StepsOrderedButUnfinished ==
    callKind = "spawn" =>
        \A i \in 2..5 :
            StepStateAt(i) # STEP_NOT_STARTED
                => \A k \in 2..(i - 1) : StepStateAt(k) = STEP_PERFORMED

-----------------------------------------------------------------------------
(* The deadline of the session expires.                                    *)

\* spawn() failed because reading the preloader's response timed out.
ReadTimedOut ==
    /\ SpawnFailed
    /\ exception.summary = "Timeout reading the response"

\* spawn() failed because opening a response FIFO timed out.
FifoTimedOut ==
    /\ SpawnFailed
    /\ exception.summary = "Cannot open FIFO"
    /\ exception.category = TIMEOUT_ERROR

\* The attempt that ended the call was not counted as a crash, and the
\* preloader was left as it was.
LastAttemptNoCrash ==
    /\ Len(crashes) = attempts - 1
    /\ restarts = Len(crashes)
    /\ preloaderStarted

StepOfException(step) == exception.journey.steps[step].state

\* C24: when the read of the response or the open of a response FIFO times
\* out, spawn() throws a SpawnException in whose journey the step that was
\* in progress (the read, or the processing of the response) is Errored,
\* and the timeout is not handled as a crash of the preloader.
TimeoutErrorsStepInProgress ==
    /\ ReadTimedOut =>
          /\ exception.type = "SpawnException"
          /\ StepOfException(SPAWNING_KIT_READ_RESPONSE_FROM_PRELOADER)
                 = STEP_ERRORED
          /\ LastAttemptNoCrash
    /\ FifoTimedOut =>
          /\ exception.type = "SpawnException"
          /\ StepOfException(SPAWNING_KIT_PROCESS_RESPONSE_FROM_PRELOADER)
                 = STEP_ERRORED
          /\ LastAttemptNoCrash

\* The read timed out, and the journey of the exception has the
\* preparation Errored and the read still InProgress.
ReadTimeoutBlamesPreparation ==
    /\ ReadTimedOut
    /\ exception.type = "SpawnException"
    /\ exception.category = TIMEOUT_ERROR
    /\ StepOfException(SPAWNING_KIT_PREPARATION) = STEP_ERRORED
    /\ StepOfException(SPAWNING_KIT_READ_RESPONSE_FROM_PRELOADER)
           = STEP_IN_PROGRESS

\* What the code does on a timeout: a SpawnException of the timeout
\* category, no crash handling, and the processing step Errored when a FIFO
\* was being opened.
TimeoutsSurfaced ==
    /\ (ReadTimedOut \/ FifoTimedOut) =>
          /\ exception.type = "SpawnException"
          /\ exception.category = TIMEOUT_ERROR
          /\ LastAttemptNoCrash
    /\ FifoTimedOut =>
          StepOfException(SPAWNING_KIT_PROCESS_RESPONSE_FROM_PRELOADER)
              = STEP_ERRORED

-----------------------------------------------------------------------------
(* Stopping the crashed preloader fails.                                   *)

\* spawn() has ended after stopPreloader() threw in one of the two crash
\* handlers of invokeForkCommand.
StopFailedInSpawn == SpawnReturned /\ stopFailed

\* After the crash whose handler failed to stop the preloader, nothing was
\* started and nothing was retried.
RecoveryAborted ==
    /\ attempts = Len(crashes)
    /\ restarts = Len(crashes) - 1
    /\ preloaderStarted

\* C25: when stopPreloader() fails in the recovery from the first or the
\* second crash, spawn() starts no preloader, retries nothing, and throws a
\* SpawnException whose summary starts with "Error stopping a crashed
\* preloader: " and whose journey has the preparation step Errored.
StopFailureAbortsRecovery ==
    StopFailedInSpawn =>
        /\ outcome = "exception"
        /\ RecoveryAborted
        /\ exception.type = "SpawnException"
        /\ exception.summary = "Error stopping a crashed preloader: "
        /\ StepOfException(SPAWNING_KIT_PREPARATION) = STEP_ERRORED

\* The retried command crashed after connecting, stopping the preloader
\* failed, and spawn() threw the error of the journey instead.
StopFailureMasked ==
    /\ StopFailedInSpawn
    /\ Len(crashes) = 2
    /\ crashes[2] # "connect"
    /\ RecoveryAborted
    /\ exception.type = "SpawnException"
    /\ exception.summary = "Unable to change state for journey step"
    /\ StepOfException(SPAWNING_KIT_PREPARATION) = STEP_ERRORED

\* The claim holds for the stop that fails after the first crash, and
\* after a second crash while connecting.
StopFailureReported ==
    (StopFailedInSpawn /\ (Len(crashes) = 1 \/ crashes[2] = "connect"))
        => /\ outcome = "exception"
           /\ RecoveryAborted
           /\ exception.type = "SpawnException"
           /\ exception.summary = "Error stopping a crashed preloader: "
           /\ StepOfException(SPAWNING_KIT_PREPARATION) = STEP_ERRORED

-----------------------------------------------------------------------------
(* LSpec: the lock operations of spawn(), cleanup(), lastUsed() and        *)
(* getPreloaderPid() called from several threads.  A step goes from one    *)
(* operation on a mutex to the next; what the preloader and the            *)
(* application do in between is a choice of how the call goes on.          *)

lockFrame == << journeyVars, setupperVars, optionsVars, preloaderStdin,
                socketAddress, preloaderAnnotations, osVars, callLocals,
                preloaders, journeyLog, destroyed, stopVars, timeoutVars >>

\* A lock_guard on simpleFieldSyncher that lives on after its statement.
ScopeOpen(t) == t

\* The block around a lock_guard on simpleFieldSyncher closes: the guard
\* is destroyed and the mutex has no holder.
ScopeClosed(t) == 0

\* The call of thread t returns or throws with syncher held.
LLeave(t) ==
    /\ threads' = [threads EXCEPT ![t] = NoCall]
    /\ syncher' = "free"

LBegin(t, kind, at) ==
    /\ CanCall(t)
    /\ calls < MaxCalls
    /\ calls' = calls + 1
    /\ threads' = [threads EXCEPT ![t] =
                       [NoCall EXCEPT !.pc = at, !.kind = kind,
                                      !.id = calls + 1]]
    /\ UNCHANGED << pid, m_lastUsed, syncher, simpleFieldSyncher, lastRead,
                    lockFrame >>

\* The four methods are entered.
LSpawn(t) == LBegin(t, "spawn", "lastUsedLock")
LCleanup(t) == LBegin(t, "cleanup", "lastUsedLock")
LLastUsed(t) == LBegin(t, "lastUsed", "readLock")
LGetPreloaderPid(t) == LBegin(t, "getPreloaderPid", "readLock")

\* The pc at a lock_guard on simpleFieldSyncher, and the pc inside it.
FieldSections ==
    [lastUsedLock |-> "lastUsed", readLock |-> "read",
     assignLock |-> "assign", resetLock |-> "reset"]

\* boost::lock_guard<boost::mutex> l(simpleFieldSyncher).
LLockFields(t) ==
    /\ threads[t].pc \in DOMAIN FieldSections
    /\ simpleFieldSyncher = 0
    /\ simpleFieldSyncher' = t
    /\ threads' = [threads EXCEPT ![t].pc = FieldSections[threads[t].pc]]
    /\ UNCHANGED << pid, m_lastUsed, syncher, calls, lastRead, lockFrame >>

\* spawn() and cleanup(): m_lastUsed = SystemTime::getUsec(), end of block.
LSetLastUsed(t) ==
    /\ threads[t].pc = "lastUsed"
    /\ m_lastUsed' = threads[t].id
    /\ simpleFieldSyncher' = ScopeClosed(t)
    /\ threads' = [threads EXCEPT ![t].pc = "lock"]
    /\ UNCHANGED << pid, syncher, calls, lastRead, lockFrame >>

\* lastUsed() and getPreloaderPid(): return the field.
LReadField(t) ==
    /\ threads[t].pc = "read"
    /\ lastRead' = [read |-> TRUE,
                    value |-> IF threads[t].kind = "lastUsed"
                              THEN m_lastUsed ELSE pid]
    /\ simpleFieldSyncher' = 0
    /\ threads' = [threads EXCEPT ![t] = NoCall]
    /\ UNCHANGED << pid, m_lastUsed, syncher, calls, lockFrame >>

\* boost::lock_guard<boost::mutex> l(syncher) of spawn() and cleanup().
LLock(t) ==
    /\ threads[t].pc = "lock"
    /\ CanLock
    /\ syncher' = "held"
    /\ threads' = [threads EXCEPT ![t].pc =
                       IF threads[t].kind = "cleanup" THEN "stopPreloader"
                       ELSE IF preloaderStarted THEN "forkCommand"
                       ELSE "startPreloader"]
    /\ UNCHANGED << pid, m_lastUsed, simpleFieldSyncher, calls, lastRead,
                    lockFrame >>

\* startPreloader() up to the block that assigns the fields, or its
\* failure before.
LStartPreloader(t) ==
    /\ threads[t].pc = "startPreloader"
    /\ \E started \in BOOLEAN :
          IF started
          THEN /\ threads' = [threads EXCEPT ![t].pc = "assignLock"]
               /\ UNCHANGED syncher
          ELSE LLeave(t)
    /\ UNCHANGED << pid, m_lastUsed, simpleFieldSyncher, calls, lastRead,
                    lockFrame >>

\* internalStartPreloader: this->pid = pid and the other fields, end of
\* block.
LAssignFields(t) ==
    /\ threads[t].pc = "assign"
    /\ pid' = threads[t].id
    /\ simpleFieldSyncher' = ScopeClosed(t)
    /\ threads' = [threads EXCEPT ![t].pc = "started"]
    /\ UNCHANGED << m_lastUsed, syncher, calls, lastRead, lockFrame >>

\* internalStartPreloader after the block: the watcher starts, or throws.
LStartPreloaderEnd(t) ==
    /\ threads[t].pc = "started"
    /\ \E watching \in BOOLEAN :
          IF watching
          THEN /\ threads' = [threads EXCEPT ![t].pc = "forkCommand"]
               /\ UNCHANGED syncher
          ELSE LLeave(t)
    /\ UNCHANGED << pid, m_lastUsed, simpleFieldSyncher, calls, lastRead,
                    lockFrame >>

\* invokeForkCommand and the handshake: spawn() returns, throws, or the
\* preloader has crashed and is stopped.
LForkCommand(t) ==
    /\ threads[t].pc = "forkCommand"
    /\ \E crashed \in BOOLEAN :
          IF crashed
          THEN /\ threads' = [threads EXCEPT ![t].pc = "stopPreloader",
                                             ![t].crashes = @ + 1]
               /\ UNCHANGED syncher
          ELSE LLeave(t)
    /\ UNCHANGED << pid, m_lastUsed, simpleFieldSyncher, calls, lastRead,
                    lockFrame >>

\* stopPreloader() up to the block that resets the fields.
LStopPreloader(t) ==
    /\ threads[t].pc = "stopPreloader"
    /\ IF ~preloaderStarted
       THEN /\ threads' = [threads EXCEPT ![t].pc = "stopped"]
            /\ UNCHANGED syncher
       ELSE \E throws \in BOOLEAN :
               IF throws
               THEN LLeave(t)
               ELSE /\ threads' = [threads EXCEPT ![t].pc = "resetLock"]
                    /\ UNCHANGED syncher
    /\ UNCHANGED << pid, m_lastUsed, simpleFieldSyncher, calls, lastRead,
                    lockFrame >>

\* stopPreloader(): pid = -1 and the other fields, end of block.
LResetFields(t) ==
    /\ threads[t].pc = "reset"
    /\ pid' = -1
    /\ simpleFieldSyncher' = ScopeClosed(t)
    /\ threads' = [threads EXCEPT ![t].pc = "stopped"]
    /\ UNCHANGED << m_lastUsed, syncher, calls, lastRead, lockFrame >>

\* stopPreloader() has returned: cleanup() returns, the first crash handler
\* of invokeForkCommand starts the preloader again, the second one throws.
LStopReturns(t) ==
    /\ threads[t].pc = "stopped"
    /\ IF threads[t].kind = "spawn" /\ threads[t].crashes = 1
       THEN /\ threads' = [threads EXCEPT ![t].pc = "startPreloader"]
            /\ UNCHANGED syncher
       ELSE LLeave(t)
    /\ UNCHANGED << pid, m_lastUsed, simpleFieldSyncher, calls, lastRead,
                    lockFrame >>

\* A step of thread t inside a call.
LStep(t) ==
    \/ LLockFields(t)
    \/ LSetLastUsed(t)
    \/ LReadField(t)
    \/ LLock(t)
    \/ LStartPreloader(t)
    \/ LAssignFields(t)
    \/ LStartPreloaderEnd(t)
    \/ LForkCommand(t)
    \/ LStopPreloader(t)
    \/ LResetFields(t)
    \/ LStopReturns(t)

LNext ==
    \E t \in Threads :
        \/ LSpawn(t)
        \/ LCleanup(t)
        \/ LLastUsed(t)
        \/ LGetPreloaderPid(t)
        \/ LStep(t)

LSpec == Init /\ [][LNext]_vars

\* C26: a thread about to acquire syncher does not hold simpleFieldSyncher,
\* and as long as some thread is inside a call, some thread can take a
\* step: the two mutexes never leave every thread waiting.
LocksOrdered ==
    /\ \A t \in Threads :
          threads[t].pc = "lock" => simpleFieldSyncher # t
    /\ (\E t \in Threads : threads[t].pc # "idle")
          => \E t \in Threads : ENABLED LStep(t)

\* A thread inside startPreloader() holds both mutexes while another
\* thread waits for syncher.
BothLocksHeld ==
    \E t, u \in Threads :
        /\ t # u
        /\ threads[t].pc = "assign"
        /\ simpleFieldSyncher = t
        /\ syncher = "held"
        /\ threads[u].pc = "lock"

-----------------------------------------------------------------------------
(* KSpec: stopPreloader() one system call at a time, as cleanup() calls    *)
(* it, on a preloader that exits when it likes.                            *)

stopFrame == << journeyVars, setupperVars, optionsVars, lockVars, threadVars,
                timeoutVars,
                plan, attempts, restarts, crashes, stopFailed, restartFailed,
                startRet, startPid, startSession, session, response,
                forkResult, spawnedUid, handshakePid, result >>

\* A timedWaitpid that is never taken to have timed out.
TimedOutNever(ret) == FALSE

\* stopPreloader: timedWaitpid(pid, NULL, 5000) == 0.
TimedOut(ret) == ret = 0

\* spawn() on a spawner without a preloader, as far as stopPreloader() can
\* tell afterwards: startPreloader() has forked the preloader and assigned
\* the fields.
KSpawn ==
    /\ pc = "idle"
    /\ calls < MaxStopCalls
    /\ ~preloaderStarted
    /\ calls' = calls + 1
    /\ callKind' = "spawn"
    /\ m_lastUsed' = calls + 1
    /\ \E sockets \in PreloaderResults :
          /\ findPreloaderCommandSocketAddress(sockets) # ""
          /\ socketAddress' = findPreloaderCommandSocketAddress(sockets)
    /\ procs' = Forked(AppUid)
    /\ pid' = NextPid
    /\ preloaderStdin' = TRUE
    /\ preloaderAnnotations' = {"ruby_version"}
    /\ outcome' = "ok"
    /\ exception' = NoException
    /\ UNCHANGED << syncher, unlinked, pc, elapsed,
                    stopFrame >>

\* cleanup() up to the call of stopPreloader().
KCleanup ==
    /\ pc = "idle"
    /\ calls < MaxStopCalls
    /\ calls' = calls + 1
    /\ callKind' = "cleanup"
    /\ m_lastUsed' = calls + 1
    /\ syncher' = "held"
    /\ outcome' = "running"
    /\ exception' = NoException
    /\ pc' = "stopPreloader"
    /\ UNCHANGED << fieldVars, osVars, elapsed, stopFrame >>

\* stopPreloader() returns or throws, and cleanup() with it.
KLeave(how) ==
    /\ pc' = "idle"
    /\ syncher' = "free"
    /\ outcome' = how

\* stopPreloader: the test of preloaderStarted(), safelyClose, and the
\* Timer of timedWaitpid, which throws when it cannot read the clock.
KClose ==
    /\ pc = "stopPreloader"
    /\ IF ~preloaderStarted
       THEN /\ KLeave("ok")
            /\ UNCHANGED << preloaderStdin, exception, elapsed >>
       ELSE /\ preloaderStdin' = FALSE
            /\ \E throws \in BOOLEAN :
                  IF throws
                  THEN /\ KLeave("exception")
                       /\ exception' = StdException("SystemException",
                                           "Unable to retrieve the system time")
                       /\ UNCHANGED elapsed
                  ELSE /\ pc' = "timedWaitpid"
                       /\ elapsed' = 0
                       /\ UNCHANGED << syncher, outcome, exception >>
    /\ UNCHANGED << pid, socketAddress, preloaderAnnotations, m_lastUsed,
                    osVars, calls, callKind, stopFrame >>

\* timedWaitpid: one round of its loop.  waitpid with WNOHANG reaps the
\* preloader that has exited (ret > 0), fails when there is no such child
\* (ret = -1), and otherwise returns 0; the loop then sleeps and goes on
\* until the timer has reached the timeout.
KTimedWaitpid ==
    /\ pc = "timedWaitpid"
    /\ LET ret == IF pid \notin DOMAIN procs \/ procs[pid].state = "reaped"
                  THEN -1
                  ELSE IF procs[pid].state = "exited" THEN pid
                  ELSE 0
           done == ret # 0 \/ elapsed + 1 >= MaxPolls
       IN  /\ procs' = IF ret > 0
                       THEN [procs EXCEPT ![pid].state = "reaped"]
                       ELSE procs
           /\ elapsed' = IF ret = 0 THEN elapsed + 1 ELSE elapsed
           /\ pc' = IF ~done THEN "timedWaitpid"
                    ELSE IF TimedOut(ret) THEN "kill"
                    ELSE "unlink"
    /\ UNCHANGED << fieldVars, m_lastUsed, syncher, unlinked, calls, callKind,
                    outcome, exception, stopFrame >>

\* stopPreloader: syscalls::kill(pid, SIGKILL).
KKill ==
    /\ pc = "kill"
    /\ procs' = [procs EXCEPT ![pid].sigkill = TRUE,
                              ![pid].state = IF @ = "running" THEN "exited"
                                             ELSE @]
    /\ pc' = "waitpid"
    /\ UNCHANGED << fieldVars, m_lastUsed, syncher, unlinked, calls, callKind,
                    outcome, exception, elapsed, stopFrame >>

\* stopPreloader: syscalls::waitpid(pid, NULL, 0) returns once the process
\* has exited.
KWaitpid ==
    /\ pc = "waitpid"
    /\ procs[pid].state # "running"
    /\ procs' = [procs EXCEPT ![pid].state = "reaped"]
    /\ pc' = "unlink"
    /\ UNCHANGED << fieldVars, m_lastUsed, syncher, unlinked, calls, callKind,
                    outcome, exception, elapsed, stopFrame >>

\* stopPreloader: the socket file of a Unix domain socket is unlinked.
KUnlink ==
    /\ pc = "unlink"
    /\ unlinked' = IF getSocketAddressType(socketAddress) = SAT_UNIX
                   THEN unlinked \cup {parseUnixSocketAddress(socketAddress)}
                   ELSE unlinked
    /\ pc' = "reset"
    /\ UNCHANGED << fieldVars, m_lastUsed, syncher, procs, calls, callKind,
                    outcome, exception, elapsed, stopFrame >>

\* stopPreloader: the fields are reset, and cleanup() returns.
KReset ==
    /\ pc = "reset"
    /\ pid' = -1
    /\ socketAddress' = ""
    /\ preloaderStdin' = FALSE
    /\ preloaderAnnotations' = {}
    /\ KLeave("ok")
    /\ UNCHANGED << m_lastUsed, osVars, calls, callKind, exception, elapsed,
                    stopFrame >>

\* The preloader exits: of its own accord, or because its stdin was closed.
KPreloaderExits ==
    /\ isRunning(pid)
    /\ procs' = [procs EXCEPT ![pid].state = "exited"]
    /\ UNCHANGED << spawnerVars, unlinked, pc, calls, callKind, outcome,
                    exception, elapsed, stopFrame >>

KNext ==
    \/ KSpawn
    \/ KCleanup
    \/ KClose
    \/ KTimedWaitpid
    \/ KKill
    \/ KWaitpid
    \/ KUnlink
    \/ KReset
    \/ KPreloaderExits

KSpec == Init /\ [][KNext]_vars

\* The preloader the fields name has exited and has been waited for.
PreloaderGone == pid \in DOMAIN procs /\ procs[pid].state = "reaped"

\* C27: stopPreloader() waits for the preloader only with its stdin closed;
\* sends SIGKILL only when the timed wait has run out, and waits again
\* afterwards; unlinks nothing but the path of a Unix domain socket, and
\* that only when the preloader has exited; and resets the fields only
\* when all this is done.
StopOrdered ==
    [][/\ pc' \in {"timedWaitpid", "kill", "waitpid"} => ~preloaderStdin'
       /\ (\E p \in DOMAIN procs : procs'[p].sigkill /\ ~procs[p].sigkill)
             => /\ pc = "kill"
                /\ elapsed = MaxPolls
                /\ pc' = "waitpid"
       /\ pc' = "unlink" => PreloaderGone'
       /\ unlinked' # unlinked
             => /\ PreloaderGone
                /\ getSocketAddressType(socketAddress) = SAT_UNIX
                /\ unlinked' = unlinked
                       \cup {parseUnixSocketAddress(socketAddress)}
       /\ (callKind = "cleanup" /\ pid # -1 /\ pid' = -1)
             => /\ PreloaderGone
                /\ ~preloaderStdin
                /\ getSocketAddressType(socketAddress) = SAT_UNIX
                       => parseUnixSocketAddress(socketAddress) \in unlinked
                /\ socketAddress' = ""
                /\ preloaderAnnotations' = {}
      ]_vars

\* cleanup() has stopped a preloader that listened on a Unix domain socket
\* and had to be killed.
KilledAndUnlinked ==
    /\ pc = "idle"
    /\ callKind = "cleanup"
    /\ outcome = "ok"
    /\ pid = -1
    /\ \E p \in DOMAIN procs : procs[p].sigkill /\ procs[p].state = "reaped"
    /\ unlinked # {}
    /\ elapsed = MaxPolls

-----------------------------------------------------------------------------
(* The fork command response, in Spec.                                     *)

\* The shapes of a response line that are to be accepted: a JSON object
\* with a string `result' that is "ok" with an integer `pid', or "error"
\* with a string `message'.
WellFormedResponse(line) ==
    /\ line.parses
    /\ line.doc.isObject
    /\ isMember(line.doc, "result")
    /\ line.doc.members["result"].type = "string"
    /\ \/ /\ line.doc.members["result"].value = "ok"
          /\ isMember(line.doc, "pid")
          /\ line.doc.members["pid"].type = "int"
       \/ /\ line.doc.members["result"].value = "error"
          /\ isMember(line.doc, "message")
          /\ line.doc.members["message"].type = "string"

\* spawn() has thrown a SpawnException of category INTERNAL_ERROR.
InternalErrorThrown ==
    /\ SpawnFailed
    /\ exception.type = "SpawnException"
    /\ exception.category = INTERNAL_ERROR

\* C28: a response line goes on to be processed if and only if it is a
\* JSON object with a string result that is "ok" with an integer pid or
\* "error" with a string message; any other line makes spawn() throw an
\* INTERNAL_ERROR SpawnException with the parse step errored, and the
\* preloader is neither stopped nor restarted nor asked again.
ResponseValidated ==
    /\ pc = "process" => WellFormedResponse(response)
    /\ (pc = "parse" /\ WellFormedResponse(response))
          => ENABLED (ParseForkCommandResponse /\ pc' = "process")
    /\ (SpawnReturned /\ response # NoResponse
          /\ ~WellFormedResponse(response))
          => /\ InternalErrorThrown
             /\ StepOfException(SPAWNING_KIT_PARSE_RESPONSE_FROM_PRELOADER)
                    = STEP_ERRORED
             /\ LastAttemptNoCrash
    /\ (SpawnFailed /\ exception.type = "SpawnException"
          /\ SPAWNING_KIT_PARSE_RESPONSE_FROM_PRELOADER
                 \in DOMAIN exception.journey.steps
          /\ StepOfException(SPAWNING_KIT_PARSE_RESPONSE_FROM_PRELOADER)
                 = STEP_ERRORED)
          => ~WellFormedResponse(response)

\* spawn() has failed on a response that says "ok" and gives the pid as a
\* string.
PidStringRejected ==
    /\ InternalErrorThrown
    /\ response # NoResponse
    /\ response.parses
    /\ response.doc = JsonObject([result |-> JsonString("ok"),
                                  pid |-> JsonString("12345")])
    /\ StepOfException(SPAWNING_KIT_PARSE_RESPONSE_FROM_PRELOADER)
           = STEP_ERRORED

\* spawn() has thrown what readForkCommandResponse throws for a response
\* line of more than 10240 bytes.
OversizedResponseThrown ==
    /\ SpawnFailed
    /\ exception.summary =
           "The preloader process sent a response that exceeds the maximum size limit."

\* C29: a response line over the size limit can come whenever the preloader
\* answers; spawn() then throws an INTERNAL_ERROR SpawnException whose
\* journey has the read step errored and the parse and process steps not
\* started, and the preloader is neither stopped nor restarted nor asked
\* again.
OversizedResponseRejected ==
    /\ (pc = "read" /\ Passes("read", attempts))
          => ENABLED (ReadForkCommandResponse /\ OversizedResponseThrown')
    /\ OversizedResponseThrown
          => /\ exception.type = "SpawnException"
             /\ exception.category = INTERNAL_ERROR
             /\ StepOfException(SPAWNING_KIT_READ_RESPONSE_FROM_PRELOADER)
                    = STEP_ERRORED
             /\ StepOfException(SPAWNING_KIT_PARSE_RESPONSE_FROM_PRELOADER)
                    = STEP_NOT_STARTED
             /\ StepOfException(SPAWNING_KIT_PROCESS_RESPONSE_FROM_PRELOADER)
                    = STEP_NOT_STARTED
             /\ response = NoResponse
             /\ LastAttemptNoCrash
             /\ isRunning(pid)

\* spawn() has failed on an oversized response to the retried command.
OversizedAfterRestart ==
    /\ OversizedResponseThrown
    /\ attempts = 2
    /\ restarts = 1

-----------------------------------------------------------------------------
(* The response FIFOs, in Spec.                                            *)

\* handleForkCommandResponse is about to handle an "ok" response that names
\* a running process with the UID the session expects.
OkResponseAtHand ==
    /\ pc = "process"
    /\ response.doc.members["result"].value = "ok"
    /\ isRunning(response.doc.members["pid"].value)
    /\ procs[response.doc.members["pid"].value].uid = session.uid

\* handleForkCommandResponse returns the pid of the response with
\* descriptors for the FIFOs given.
FifosHandled(stdinFifo, stdoutFifo) ==
    /\ HandleForkCommandResponse
    /\ pc' = "handshake"
    /\ forkResult' = [pid |-> response.doc.members["pid"].value,
                      stdinFd |-> stdinFifo,
                      stdoutAndErrFd |-> stdoutFifo]

\* Whichever of the two FIFOs exist, the "ok" response can be handled and
\* then yields descriptors for exactly those.
FifosYieldDescriptors ==
    OkResponseAtHand
        => \A stdinFifo \in BOOLEAN, stdoutFifo \in BOOLEAN :
               ENABLED FifosHandled(stdinFifo, stdoutFifo)

\* C30: whichever of response/stdin and response/stdout_and_err exist, an
\* "ok" response naming a process with the expected UID is handled
\* successfully and yields the pid with descriptors for exactly the FIFOs
\* that exist; the capturer is stopped only when there is one.
FifosOptional ==
    /\ pc # "aborted"
    /\ FifosYieldDescriptors

\* The process has died in handleForkCommandResponseSuccess on an "ok"
\* response whose process has the expected UID.
AbortedWithoutStdoutFifo ==
    /\ pc = "aborted"
    /\ response.doc.members["result"].value = "ok"
    /\ spawnedUid = session.uid

-----------------------------------------------------------------------------
(* The process the preloader forked, in Spec.                              *)

\* The preloader has answered "ok" with the pid of a process.
ChildReported ==
    /\ response # NoResponse
    /\ WellFormedResponse(response)
    /\ response.doc.members["result"].value = "ok"

ReportedPid == response.doc.members["pid"].value

\* The processes killed in this step.
Killed == { p \in DOMAIN procs : procs'[p].sigkill /\ ~procs[p].sigkill }

\* C31: when spawn() throws after the preloader reported "ok" with pid P,
\* P has been killed and reaped; when spawn() returns, P runs, and no later
\* step kills a process other than the preloader, the process a preloader
\* start forked, and the P of a spawn() that throws.
ChildOwnership ==
    [][/\ (SpawnFailed' /\ ChildReported')
             => /\ procs'[ReportedPid'].state = "reaped"
                /\ procs'[ReportedPid'].sigkill
       /\ (SpawnReturned' /\ outcome' = "ok")
             => /\ ChildReported'
                /\ isRunning(ReportedPid)'
                /\ ~procs'[ReportedPid'].sigkill
       /\ \A p \in Killed :
             \/ p = pid
             \/ p = startPid
             \/ /\ ChildReported
                /\ p = ReportedPid
                /\ SpawnFailed'
      ]_vars

\* spawn() has thrown because the handshake with the forked process failed,
\* and that process is gone.
ChildKilledAfterHandshake ==
    /\ SpawnFailed
    /\ ChildReported
    /\ handshakePid = ReportedPid
    /\ procs[ReportedPid].state = "reaped"

-----------------------------------------------------------------------------
(* A preloader start that fails after the fork, in Spec.                   *)

\* spawn() has thrown because startPreloader() failed after it had forked
\* the process startPid.
StartFailedAfterFork == SpawnFailed /\ startPid # -1

\* The process a failed start had forked is killed and reaped.
FailedStartKillsProcess ==
    StartFailedAfterFork => procs[startPid].state = "reaped"

\* C32: after a preloader start that failed after the fork, the forked
\* process is killed and reaped and the spawner holds no preloader: pid is
\* -1, socketAddress is empty and preloaderStdin is closed.
FailedStartLeavesNoPreloader ==
    StartFailedAfterFork
        => /\ procs[startPid].state = "reaped"
           /\ pid = -1
           /\ socketAddress = ""
           /\ ~preloaderStdin

\* A start has failed after the fields were assigned: they name a process
\* that is gone.
StalePreloaderFields ==
    /\ StartFailedAfterFork
    /\ pid = startPid
    /\ procs[pid].state = "reaped"
    /\ preloaderStdin

-----------------------------------------------------------------------------
(* FSpec: the timeout of one HandshakeSession over the openFifoWithTimeout *)
(* calls made with it.                                                     *)

fifoFrame == << journeyVars, spawnerVars, osVars, callVars, threadVars,
                setupperVars, optionsVars, lockVars, stopVars >>

\* Arithmetic of the unsigned type that holds times.
TimeModulus == 2 ^ TimeBits
UnsignedSub(a, b) == (a - b + TimeModulus) % TimeModulus

\* adjustTimeout(startTime, &timeout) when getMonotonicUsec() returns
\* `clock': the new value of the timeout.
adjustTimeout(startTime, timeout, clock) ==
    LET diff == UnsignedSub(startTime, clock)
    IN  IF timeout >= diff THEN UnsignedSub(timeout, diff) ELSE 0

\* A HandshakeSession is made: its timeout is the start timeout of the
\* configuration.
FSession ==
    /\ fifoCall.pc \in {"none", "done"}
    /\ \E t \in 1..MaxTimeout : timeoutUsec' = t
    /\ fifoCall' = NoFifo
    /\ UNCHANGED << monotonic, fifoFrame >>

\* openFifoWithTimeout up to try_join_for: the opener thread is started
\* and the start time taken.
FOpen ==
    /\ fifoCall.pc \in {"none", "done"}
    /\ timeoutUsec > 0 \/ fifoCall.pc = "done"
    /\ fifoCall' = [pc |-> "joining", startTime |-> monotonic, endTime |-> 0,
                timeout |-> timeoutUsec, outcome |-> "none"]
    /\ UNCHANGED << timeoutUsec, monotonic, fifoFrame >>

\* Time passes.
FTick ==
    /\ monotonic < MaxMonotonic
    /\ fifoCall.pc = "joining" => monotonic - fifoCall.startTime <= timeoutUsec
    /\ monotonic' = monotonic + 1
    /\ UNCHANGED << timeoutUsec, fifoCall, fifoFrame >>

\* openFifoWithTimeout from try_join_for on: the opener thread has ended
\* in time and the descriptor is returned or SystemException thrown, or it
\* has not and TimeoutException is thrown; the guard adjusts the timeout.
FJoin ==
    /\ fifoCall.pc = "joining"
    /\ \E how \in {"fd", "SystemException", "TimeoutException"} :
          /\ IF how = "TimeoutException"
             THEN monotonic - fifoCall.startTime >= timeoutUsec
             ELSE monotonic - fifoCall.startTime <= timeoutUsec
          /\ fifoCall' = [fifoCall EXCEPT !.pc = "done", !.endTime = monotonic,
                                  !.outcome = how]
    /\ timeoutUsec' = adjustTimeout(fifoCall.startTime, timeoutUsec, monotonic)
    /\ UNCHANGED << monotonic, fifoFrame >>

FNext ==
    \/ FSession
    \/ FOpen
    \/ FTick
    \/ FJoin

FSpec == Init /\ [][FNext]_vars

\* The smaller of nothing and what is left of `timeout' after `spent'.
Remaining(timeout, spent) == IF timeout >= spent THEN timeout - spent ELSE 0

\* The timeout never increases over a call, and a call that takes no time
\* leaves it as it was.
TimeoutNeverIncreases ==
    fifoCall.pc = "done"
        => /\ timeoutUsec <= fifoCall.timeout
           /\ fifoCall.endTime = fifoCall.startTime => timeoutUsec = fifoCall.timeout

\* C33: after every openFifoWithTimeout call, however it ended, the
\* timeout of the session is what it was less the time the call took, and
\* 0 if the call took longer; it never increases.
TimeoutDecremented ==
    fifoCall.pc = "done"
        => /\ timeoutUsec = Remaining(fifoCall.timeout,
                                      fifoCall.endTime - fifoCall.startTime)
           /\ timeoutUsec <= fifoCall.timeout

\* A FIFO was opened in less time than the timeout allowed, and no timeout
\* is left.
TimeoutLostOnQuickOpen ==
    /\ fifoCall.pc = "done"
    /\ fifoCall.outcome = "fd"
    /\ fifoCall.endTime - fifoCall.startTime > 0
    /\ fifoCall.endTime - fifoCall.startTime < fifoCall.timeout
    /\ timeoutUsec = 0

-----------------------------------------------------------------------------
(* The order in which the setupper drops privileges, in USpec.             *)

\* The places of the calls in the order stated for the user switch;
\* setgroups and initgroups are alternatives and share a place.
PlaceOf(call) ==
    CASE call = "lookupUserGroup" -> 1
      [] call = "setrlimit" -> 2
      [] call \in {"lve", "jail"} -> 3
      [] call = "getgrouplist" -> 4
      [] call \in {"setgroups", "initgroups"} -> 5
      [] call = "setgid" -> 6
      [] call = "setuid" -> 7
      [] call = "chdir" -> 8
      [] call \in {"recordJourneyStepPerformed",
                   "recordJourneyStepInProgress"} -> 9
      [] call = "execvp" -> 10

Done(call) == \E i \in DOMAIN effects : effects[i] = call

\* A user switch applies to this run.
UserSwitchApplies ==
    /\ context.mode = BEFORE_MODE
    /\ locals.shouldTrySwitchUser
    /\ setupperPc \notin {"main", "readArgs"}

\* C34: in BEFORE_MODE with a user to switch to, the calls happen in the
\* order lookup, ulimit, LVE jail, supplementary groups, setgid, setuid,
\* chdir, exec; setuid does not precede setgroups / initgroups or setgid,
\* and the next command is executed only after setgid and setuid succeeded.
PrivilegeDropOrdered ==
    /\ \A i, j \in DOMAIN effects :
           i < j => \/ PlaceOf(effects[i]) < PlaceOf(effects[j])
                    \/ effects[i] = "lve" /\ effects[j] = "jail"
                    \/ /\ effects[i] = "recordJourneyStepPerformed"
                       /\ effects[j] = "recordJourneyStepInProgress"
    /\ UserSwitchApplies =>
           /\ Done("setuid") => Done("setgid")
           /\ (Done("setgid") /\ locals.userInfo = "entry")
                  => Done("setgroups") \/ Done("initgroups")
           /\ ~(Done("setgroups") /\ Done("initgroups"))
           /\ Done("chdir") => Done("setuid")
           /\ Done("execvp") => Done("setgid") /\ Done("setuid") /\ Done("chdir")

\* The setupper has switched to a user with a passwd entry, with a ulimit
\* and an LVE jail, and has executed the next command.
SwitchedAndExecuted ==
    /\ UserSwitchApplies
    /\ locals.userInfo = "entry"
    /\ effects = << "lookupUserGroup", "setrlimit", "lve", "jail",
                    "getgrouplist", "setgroups", "setgid", "setuid",
                    "chdir" >> \o ExecCalls
    /\ ending.how = "exec"

-----------------------------------------------------------------------------
(* Users and groups that are numbers without a database entry, in USpec.   *)

\* A name that is not a number and has no entry ends the run in
\* lookupUserGroup: nothing is switched, and the run exits with status 1.
UnknownNameIsFatal ==
    (UserSwitchApplies /\ lookupUserGroup \in {"user", "group"}
                       /\ setupperPc # "lookupUser")
        => /\ setupperPc = "done"
           /\ ending = [how |-> "exit", code |-> 1]
           /\ effects = << >>
           /\ \E i \in DOMAIN recorded :
                  /\ recorded[i].step = context.step
                  /\ recorded[i].value = STEP_ERRORED

\* C35: a user that is a number without a passwd entry (with a group that
\* is known or a number) does not stop the setupper: the run goes on to
\* switch the group and the user, and ends only in an exec or in the exit
\* of a later failure.
NumericUserGoesOn ==
    (UserSwitchApplies /\ lookupUserGroup = "NULL" /\ setupperPc = "done")
        => ending.how \in {"exec", "exit"}

\* The user is a number without a passwd entry, and the run ended with a
\* signal right after the lookup: no group or user was switched and no
\* error was recorded.
NumericUserStopsAtLookup ==
    /\ UserSwitchApplies
    /\ lookupUserGroup = "NULL"
    /\ ending.how = "signal"
    /\ effects = << "lookupUserGroup" >>
    /\ \A i \in DOMAIN recorded : recorded[i].value # STEP_ERRORED

-----------------------------------------------------------------------------
(* The supplementary groups the setupper installs, in USpec.               *)

\* setgroups is used for at most NGROUPS_MAX groups, with an array as long
\* as the list of getgrouplist, and initgroups for more.
GroupCallByCount ==
    /\ Done("setgroups") => /\ Len(locals.groups) <= NGROUPS_MAX
                            /\ Len(locals.gidset) = Len(locals.groups)
    /\ Done("initgroups") => Len(locals.groups) > NGROUPS_MAX

\* C36: for a user with a passwd entry and at most NGROUPS_MAX groups, the
\* list setgroups installs is the list of group ids getgrouplist returned.
SetgroupsInstallsGroupList ==
    (locals.userInfo = "entry" /\ Done("setgroups"))
        => locals.gidset = locals.groups

\* The setupper has executed the next command after setgroups installed
\* group 0 for a user whose groups do not include it.
RootGroupInstalled ==
    /\ locals.userInfo = "entry"
    /\ Done("setgroups")
    /\ ending.how = "exec"
    /\ \E i \in DOMAIN locals.gidset : locals.gidset[i] = 0
    /\ \A i \in DOMAIN locals.groups : locals.groups[i] # 0

-----------------------------------------------------------------------------
(* The journey steps recorded around the exec of the setupper, in USpec.   *)

\* The step of the next command as stated: the OS shell in BEFORE_MODE when
\* shell variables are to be loaded and the shell is a bash, zsh or ksh,
\* the wrapper in AFTER_MODE when the application starts through one.
StatedNextStep ==
    IF context.mode = BEFORE_MODE
    THEN IF /\ context.args.loadShellEnvvars
            /\ \E name \in {"bash", "zsh", "ksh"} :
                   \E dir \in {<< "bin" >>, << "usr", "bin" >>} :
                       locals.shell = Append(dir, name)
         THEN SUBPROCESS_OS_SHELL
         ELSE SUBPROCESS_SPAWN_ENV_SETUPPER_AFTER_SHELL
    ELSE IF context.args.startsUsingWrapper
         THEN SUBPROCESS_EXEC_WRAPPER
         ELSE SUBPROCESS_APP_LOAD_OR_EXEC

\* The records added by a step.
AddedRecords == SubSeq(recorded', Len(recorded) + 1, Len(recorded'))

IsRecord(r, what, step, value) ==
    r.what = what /\ r.step = step /\ r.value = value

\* execNextCommand was left at its assertion on the shell, before it did
\* anything.
ShellAssertionFailed ==
    /\ context.mode = BEFORE_MODE
    /\ locals.shell = << >>
    /\ ending'.how = "signal"
    /\ UNCHANGED << recorded, effects >>

\* Unless it fails its assertion, execNextCommand records its own step as
\* Performed, then the next step, chosen as stated, as InProgress, and
\* only then calls execvp; when execvp fails the next step is recorded as
\* Errored and the own step stays Performed.
ExecRecordedInOrder ==
    [][SExecNextCommand =>
          \/ ShellAssertionFailed
          \/ /\ effects' = effects \o << "recordJourneyStepPerformed",
                                         "recordJourneyStepInProgress",
                                         "execvp" >>
             /\ Len(AddedRecords) >= 2
             /\ IsRecord(AddedRecords[1], "step", context.step, STEP_PERFORMED)
             /\ IsRecord(AddedRecords[2], "step", StatedNextStep,
                         STEP_IN_PROGRESS)
             /\ ending'.how \in {"exec", "exit"}
             /\ ending'.how = "exec" => Len(AddedRecords) = 2
             /\ ending'.how = "exit" =>
                    /\ ending'.code = 1
                    /\ IsRecord(AddedRecords[3], "step", StatedNextStep,
                                STEP_ERRORED)
                    /\ \A i \in 3..Len(AddedRecords) :
                           AddedRecords[i].step # context.step]_vars

\* C37: every run of execNextCommand records its own step as Performed,
\* then the next step as InProgress, and then calls execvp.
ExecAlwaysRecorded ==
    [][SExecNextCommand =>
          /\ effects' = effects \o << "recordJourneyStepPerformed",
                                      "recordJourneyStepInProgress",
                                      "execvp" >>
          /\ Len(AddedRecords) >= 2
          /\ IsRecord(AddedRecords[1], "step", context.step, STEP_PERFORMED)
          /\ IsRecord(AddedRecords[2], "step", StatedNextStep,
                      STEP_IN_PROGRESS)]_vars

\* execNextCommand was reached with the empty shell of the user's passwd
\* entry and the run ended there by a signal: the step of the setupper
\* is still in progress and nothing was executed.
AbortedBeforeExec ==
    /\ context.mode = BEFORE_MODE
    /\ locals.userInfo = "entry"
    /\ locals.shell = << >>
    /\ ending.how = "signal"
    /\ Done("chdir")
    /\ ~Done("execvp")
    /\ \A i \in DOMAIN recorded :
           ~IsRecord(recorded[i], "step", context.step, STEP_PERFORMED)

\* The setupper could not execute the zsh of the user: the shell step is
\* recorded as Errored after the step of the setupper was recorded as
\* Performed.
ShellExecFailed ==
    /\ context.mode = BEFORE_MODE
    /\ context.args.loadShellEnvvars
    /\ locals.shell = << "usr", "bin", "zsh" >>
    /\ ending = [how |-> "exit", code |-> 1]
    /\ Done("execvp")
    /\ \E i \in DOMAIN recorded :
           /\ IsRecord(recorded[i], "step", context.step, STEP_PERFORMED)
           /\ i + 2 \in DOMAIN recorded
           /\ IsRecord(recorded[i + 2], "step", SUBPROCESS_OS_SHELL,
                       STEP_ERRORED)

-----------------------------------------------------------------------------
(* The report of an application root that cannot be reached, in USpec.     *)

\* setCurrentWorkingDirectory has ended the run on a stat that failed with
\* EACCES.
InaccessibleReported ==
    /\ setupperPc = "done"
    /\ \E i \in DOMAIN recorded :
           IsRecord(recorded[i], "summary", UNKNOWN_JOURNEY_STEP,
                    "Directory is inaccessible")

\* The stats are made from the top down over the application root and the
\* directories above it, and an EACCES ends the run with status 1, the
\* step Errored and the category OPERATING_SYSTEM_ERROR, without a chdir.
InaccessibleIsFatal ==
    InaccessibleReported =>
        /\ ending = [how |-> "exit", code |-> 1]
        /\ ~Done("chdir")
        /\ locals.statted # << >>
        /\ \A i \in DOMAIN locals.statted :
               /\ Len(locals.statted[i]) = 2 * i
               /\ locals.statted[i] = SubSeq(locals.appRoot, 1, 2 * i)
        /\ \E i \in DOMAIN recorded :
               /\ IsRecord(recorded[i], "step", context.step, STEP_ERRORED)
               /\ IsRecord(recorded[i + 1], "category", UNKNOWN_JOURNEY_STEP,
                           OPERATING_SYSTEM_ERROR)

\* C38: the directory the report names is the one that holds the path that
\* could not be stat'ed: "/" when that path is "/app".
InaccessibleParentNamed ==
    InaccessibleReported =>
        locals.parent = dirname(locals.statted[Len(locals.statted)])

\* The application root "/app" could not be stat'ed, and the report names
\* the directory with the empty name.
InaccessibleRootUnnamed ==
    /\ InaccessibleReported
    /\ locals.appRoot = << "/", "app" >>
    /\ locals.statted = << << "/", "app" >> >>
    /\ locals.parent = << >>

-----------------------------------------------------------------------------
(* Termination of spawn() and of stopPreloader().  Every step of Spec and  *)
(* of KSpec but the caller's is one blocking operation of the spawner      *)
(* (connect, write, read, FIFO open, waitpid) with what follows it up to   *)
(* the next one; that each returns or times out is weak fairness of the    *)
(* steps inside a call.  The caller need not call, and the preloader need  *)
(* not exit unless it is killed.  A process that has died takes no step.   *)

\* The steps of spawn() after its entry.
InSpawn ==
    \/ StartPreloaderFork
    \/ StartPreloaderHandshakeFails
    \/ StartPreloaderHandshake
    \/ StartPreloaderWatch
    \/ Prepare
    \/ ConnectToPreloader
    \/ SendForkCommand
    \/ ReadForkCommandResponse
    \/ ParseForkCommandResponse
    \/ HandleForkCommandResponse
    \/ HandshakeWithChild
    \/ HandshakeWithChildFails
    \/ CrashRecovery
    \/ SecondCrash

SpawnRunning == callKind = "spawn" /\ pc \notin {"idle", "aborted"}

\* The thread inside spawn() goes on: a call does not stay where it is for
\* ever.  In every state of a running call a step of InSpawn is possible,
\* so this is the weak fairness of InSpawn with its enabling condition
\* written out.
SpawnGoesOn == []<>(~SpawnRunning) \/ []<><<SpawnRunning /\ InSpawn>>_vars

\* connect, write and read on the socket of the preloader return or time
\* out.
SocketCallsReturn ==
    WF_vars(ConnectToPreloader \/ SendForkCommand \/ ReadForkCommandResponse)

FairSpec == Spec /\ SocketCallsReturn /\ SpawnGoesOn

\* The steps of stopPreloader() inside cleanup().
InStopPreloader ==
    \/ KClose
    \/ KTimedWaitpid
    \/ KKill
    \/ KWaitpid
    \/ KUnlink
    \/ KReset

KFairSpec == KSpec /\ WF_vars(InStopPreloader)

\* Every spawn() call comes to an end: it returns, throws, or the process
\* dies in the call.
SpawnEnds == SpawnRunning ~> (pc \in {"idle", "aborted"})

\* Every stopPreloader() call completes: it returns, or throws when the
\* clock cannot be read.
StopPreloaderCompletes == (pc = "stopPreloader") ~> (pc = "idle")

\* C39: every spawn() call eventually returns a Result or throws, however
\* often the preloader crashes.
SpawnReturnsOrThrows ==
    SpawnRunning ~> (SpawnReturned /\ outcome \in {"ok", "exception"})

\* spawn() has restarted the preloader after a crash, the command has
\* crashed again, and the call has ended with the exception.
ThrownAfterSecondCrash ==
    /\ SpawnFailed
    /\ restarts = 1
    /\ Len(crashes) = 2

\* The preloader crashed, was restarted, answered the second command, and
\* the process died in spawn() handling the answer: the call neither
\* returns nor throws.
DiedAfterRestart ==
    /\ callKind = "spawn"
    /\ pc = "aborted"
    /\ restarts = 1
    /\ Len(crashes) = 1

-----------------------------------------------------------------------------
(* The duration of a step, as inspectAsJson reports it.                    *)

\* JourneyStepInfo::usecDuration(): the difference of two unsigned times.
usecDuration(info) == UnsignedSub(info.endTime, info.startTime)

\* JourneyStepInfo::inspectAsJson(): the document of one step.
inspectStepAsJson(info) ==
    [state |-> info.state, usec_duration |-> usecDuration(info)]

\* A step's startTime exceeds its endTime only while the step is in
\* progress and has no endTime yet.
StartAfterEndOnlyInProgress ==
    \A step \in DOMAIN journey.steps :
        LET info == journey.steps[step]
        IN  info.startTime > info.endTime
                => info.state = STEP_IN_PROGRESS /\ info.endTime = 0

\* C40: after any sequence of mutator calls, forced or not, every step has
\* endTime >= startTime, so the usec_duration that inspectAsJson reports
\* is the difference endTime - startTime and not a wrapped-around value.
StepDurationNeverWraps ==
    \A step \in DOMAIN journey.steps :
        LET info == journey.steps[step]
        IN  /\ info.endTime >= info.startTime
            /\ inspectStepAsJson(info).usec_duration
                   = info.endTime - info.startTime

\* setStepInProgress has stamped a step that has no endTime, and
\* inspectAsJson reports the wrapped difference 0 - startTime for it.
InProgressDurationWrapped ==
    /\ lastOp.op = "setStepInProgress"
    /\ lastOp.ok
    /\ lastOp.step \in DOMAIN journey.steps
    /\ LET info == journey.steps[lastOp.step]
       IN  /\ info.state = STEP_IN_PROGRESS
           /\ info.startTime = now
           /\ info.endTime = 0
           /\ inspectStepAsJson(info).usec_duration
                  = TimeModulus - info.startTime

====
